---- MODULE Spec2Model ----
(***************************************************************************)
(* A model of norm's Cypher query builder (builder/query.go), its entity   *)
(* resolver (builder/entity.go) and its query validator                    *)
(* (validator/query.go).  Go strings are TLA+ strings, handled character   *)
(* by character with Len, SubSeq and \o; Go maps are functions.            *)
(***************************************************************************)
EXTENDS Integers, Sequences, FiniteSets, TLC

(***************************************************************************)
(* Bounds of the model.                                                    *)
(***************************************************************************)
\* Number of builder calls explored by Spec.
MaxCalls == 3
\* Number of builder calls explored by SpecChain.
MaxChain == 5
\* Number of builder calls explored by SpecWhere.
MaxWhere == 3
\* Number of builder calls explored by SpecPattern.
MaxPattern == 3
\* Number of builder calls explored by SpecBuild.
MaxBuild == 3
\* Number of texts SpecValidate hands to the validator in one behaviour.
MaxValidate == 1
\* Length of the bracket texts of SpecValidate.
MaxText == 4
\* Number of builder calls explored by SpecTwo.
MaxTwo == 4
\* Number of builder calls explored by SpecNot.
MaxNot == 3
\* Number of calls each of the two builders of SpecSame receives.
MaxSame == 5
\* Number of calls explored by SpecRelationship.
MaxRelationship == 3
\* Number of calls explored by SpecEntity.
MaxEntity == 4

(***************************************************************************)
(* Go strings.                                                             *)
(***************************************************************************)
\* The characters of identifiers in byte order, used to compare strings.
Ascii == "0123456789ABCDEFGHIJKLMNOPQRSTUVWXYZ_abcdefghijklmnopqrstuvwxyz"
UpperLetters == "ABCDEFGHIJKLMNOPQRSTUVWXYZ"
LowerLetters == "abcdefghijklmnopqrstuvwxyz"

Char(s, i) == SubSeq(s, i, i)

IndexIn(alphabet, c) ==
  IF \E i \in 1..Len(alphabet) : Char(alphabet, i) = c
  THEN CHOOSE i \in 1..Len(alphabet) : Char(alphabet, i) = c
  ELSE 0

Ord(c) == IndexIn(Ascii, c)

\* strings.HasPrefix
HasPrefix(s, p) == Len(s) >= Len(p) /\ SubSeq(s, 1, Len(p)) = p

\* strings.TrimPrefix
TrimPrefix(s, p) == IF HasPrefix(s, p) THEN SubSeq(s, Len(p) + 1, Len(s)) ELSE s

\* strings.Contains
Contains(s, sub) ==
  \E i \in 1..(Len(s) - Len(sub) + 1) : SubSeq(s, i, i + Len(sub) - 1) = sub

RECURSIVE MapChars(_, _, _, _, _)
\* The characters lo..hi of s, each character of from replaced by the
\* character of to at the same place (evaluated by halves)
MapChars(s, from, to, lo, hi) ==
  IF lo > hi THEN ""
  ELSE IF lo = hi
       THEN LET c == Char(s, lo)
                k == IndexIn(from, c)
            IN IF k = 0 THEN c ELSE Char(to, k)
       ELSE LET mid == (lo + hi) \div 2
            IN MapChars(s, from, to, lo, mid) \o MapChars(s, from, to, mid + 1, hi)

\* strings.ReplaceAll(s, old, new) for a one-character old and new
ReplaceAll(s, old, new) == MapChars(s, old, new, 1, Len(s))

\* strings.ToUpper and strings.ToLower
ToUpper(s) == MapChars(s, LowerLetters, UpperLetters, 1, Len(s))
ToLower(s) == MapChars(s, UpperLetters, LowerLetters, 1, Len(s))

RECURSIVE SplitFrom(_, _, _, _)
SplitFrom(s, sep, start, i) ==
  IF i > Len(s) THEN << SubSeq(s, start, Len(s)) >>
  ELSE IF Char(s, i) = sep
       THEN << SubSeq(s, start, i - 1) >> \o SplitFrom(s, sep, i + 1, i + 1)
       ELSE SplitFrom(s, sep, start, i + 1)

\* strings.Split(s, sep) for a one-character separator
Split(s, sep) == SplitFrom(s, sep, 1, 1)

RECURSIVE Join(_, _)
\* strings.Join
Join(parts, sep) ==
  IF Len(parts) = 0 THEN ""
  ELSE IF Len(parts) = 1 THEN parts[1]
  ELSE parts[1] \o sep \o Join(Tail(parts), sep)

RECURSIVE StrLessFrom(_, _, _)
StrLessFrom(a, b, i) ==
  IF i > Len(b) THEN FALSE
  ELSE IF i > Len(a) THEN TRUE
  ELSE IF Ord(Char(a, i)) < Ord(Char(b, i)) THEN TRUE
  ELSE IF Ord(Char(a, i)) > Ord(Char(b, i)) THEN FALSE
  ELSE StrLessFrom(a, b, i + 1)

\* the order < of Go strings: byte-wise lexicographic
StrLess(a, b) == StrLessFrom(a, b, 1)

RECURSIVE SortStringsDescending(_)
\* A variant of SortStrings that yields the keys in descending order
SortStringsDescending(keys) ==
  IF keys = {} THEN << >>
  ELSE LET m == CHOOSE k \in keys : \A o \in keys \ {k} : StrLess(o, k)
       IN << m >> \o SortStringsDescending(keys \ {m})

RECURSIVE SortStrings(_)
\* sort.Strings applied to the keys of a map: the keys in ascending order
SortStrings(keys) ==
  IF keys = {} THEN << >>
  ELSE LET m == CHOOSE k \in keys : \A o \in keys \ {k} : StrLess(k, o)
       IN << m >> \o SortStrings(keys \ {m})

\* fmt.Sprintf("%d", n)
Itoa(n) == ToString(n)

(***************************************************************************)
(* Go values (interface{}): a kind and the value of that kind.             *)
(***************************************************************************)
IntV(n)  == [kind |-> "int",    i |-> n, s |-> "", b |-> FALSE, l |-> << >>]
StrV(x)  == [kind |-> "string", i |-> 0, s |-> x,  b |-> FALSE, l |-> << >>]
BoolV(x) == [kind |-> "bool",   i |-> 0, s |-> "", b |-> x, l |-> << >>]
NilV     == [kind |-> "nil",    i |-> 0, s |-> "", b |-> FALSE, l |-> << >>]
UnitV    == [kind |-> "struct", i |-> 0, s |-> "", b |-> FALSE, l |-> << >>]
ListV(x) == [kind |-> "slice",  i |-> 0, s |-> "", b |-> FALSE, l |-> x]

\* A Go map[string]interface{}
EmptyMap == [k \in {} |-> NilV]
Put(m, k, v) == [x \in (DOMAIN m) \cup {k} |-> IF x = k THEN v ELSE m[x]]
IsPrefix(s, t) == Len(s) <= Len(t) /\ SubSeq(t, 1, Len(s)) = s

(***************************************************************************)
(* Struct types and entity values handed to the builder.                   *)
(***************************************************************************)
Field(name, tag, kind) == [name |-> name, tag |-> tag, kind |-> kind]

\* The struct types of the callers: their fields in declaration order.
\*   "User"      tests/common_test.go, User
\*   "PlainUser" a type named User with the single property username
\*               (the entity of the literal scenario: label User)
StructTypes ==
  [ User |->
      [ name |-> "User",
        fields |-> << Field("_", "label:User,Person", "struct"),
                      Field("Username", "username", "string"),
                      Field("Email", "email", "string"),
                      Field("Age", "age,omitempty", "int"),
                      Field("Active", "active", "bool") >> ],
    PlainUser |->
      [ name |-> "User",
        fields |-> << Field("Username", "username", "string") >> ],
    Profile |->
      [ name |-> "Profile",
        fields |-> << Field("_", "label:Profile", "struct"),
                      Field("Nick", "nick,omitempty", "string"),
                      Field("Score", "score,omitempty", "int"),
                      Field("Verified", "verified,omitempty", "bool"),
                      Field("Tags", "tags,omitempty", "slice"),
                      Field("Name", "name", "string") >> ],
    Twice |->
      [ name |-> "Twice",
        fields |-> << Field("_", "label:Person,Admin,Person", "struct"),
                      Field("Name", "name", "string") >> ] ]

\* An entity argument (interface{}): a pointer to a struct, a struct value,
\* a value that is no struct, or nil.  addr is the address of a pointer.
PtrTo(addr, typ, vals) == [kind |-> "ptr", addr |-> addr, typ |-> typ, vals |-> vals]
StructOf(typ, vals) == [kind |-> "struct", addr |-> 0, typ |-> typ, vals |-> vals]
NonStruct == [kind |-> "int", addr |-> 0, typ |-> "", vals |-> << IntV(42) >>]
NilEntity == [kind |-> "nil", addr |-> 0, typ |-> "", vals |-> << >>]

\* &User{Username: "alice"} of tests/common_test.go
UserAlice ==
  PtrTo(1, "User", << UnitV, StrV("alice"), StrV(""), IntV(0), BoolV(FALSE) >>)
\* &User{} as in TestQueryBuilder_Set
UserZero ==
  PtrTo(2, "User", << UnitV, StrV(""), StrV(""), IntV(0), BoolV(FALSE) >>)
\* the entity of the literal scenario: label User, username = "alice"
PlainAlice == PtrTo(3, "PlainUser", << StrV("alice") >>)

\* Values of the struct type Profile, every field of which but Name is
\* tagged omitempty: Profile{} and values with one or all fields set
OneTag == ListV(<< StrV("a") >>)
NoTags == ListV(<< >>)
ProfileZero ==
  StructOf("Profile", << UnitV, StrV(""), IntV(0), BoolV(FALSE), NilV, StrV("") >>)
ProfileFull ==
  PtrTo(4, "Profile", << UnitV, StrV("al"), IntV(7), BoolV(TRUE), OneTag, StrV("x") >>)
ProfileNick ==
  StructOf("Profile", << UnitV, StrV("al"), IntV(0), BoolV(FALSE), NilV, StrV("") >>)
ProfileScore ==
  StructOf("Profile", << UnitV, StrV(""), IntV(7), BoolV(FALSE), NilV, StrV("x") >>)
ProfileVerified ==
  PtrTo(5, "Profile", << UnitV, StrV(""), IntV(0), BoolV(TRUE), NilV, StrV("") >>)
ProfileTagged ==
  StructOf("Profile", << UnitV, StrV(""), IntV(0), BoolV(FALSE), OneTag, StrV("") >>)
\* A value of the struct type Twice, whose label tag names Person twice
TwiceLabelled == StructOf("Twice", << UnitV, StrV("x") >>)
ProfileNoTags ==
  PtrTo(6, "Profile", << UnitV, StrV("al"), IntV(0), BoolV(FALSE), NoTags, StrV("x") >>)

(***************************************************************************)
(* builder/entity.go                                                       *)
(***************************************************************************)
\* A variant of isZero for which the bool false is zero as well
isZeroWithBool(v) ==
  CASE v.kind = "int"    -> v.i = 0
    [] v.kind = "string" -> Len(v.s) = 0
    [] v.kind = "nil"    -> TRUE
    [] v.kind = "bool"   -> ~ v.b
    [] v.kind = "slice"  -> FALSE
    [] OTHER             -> TRUE

\* isZero: the zero test of a field value; a bool is never zero, a slice
\* that is not nil (ListV) is not zero, a struct{} equals its zero value
isZero(v) ==
  CASE v.kind = "int"    -> v.i = 0
    [] v.kind = "string" -> Len(v.s) = 0
    [] v.kind = "nil"    -> TRUE
    [] v.kind = "bool"   -> FALSE
    [] v.kind = "slice"  -> FALSE
    [] OTHER             -> TRUE

\* The places of the fields named "_" among the fields of a struct type
LabelFields(fields) == { i \in 1..Len(fields) : fields[i].name = "_" }

\* The labels of a label tag
LabelsOfTag(tag, typeName) ==
  IF HasPrefix(tag, "label:") THEN Split(TrimPrefix(tag, "label:"), ",")
  ELSE << typeName >>

\* parseLabels: the label list of a struct type
parseLabels(typ) ==
  IF LabelFields(StructTypes[typ].fields) # {}
  THEN LabelsOfTag(
         StructTypes[typ].fields[CHOOSE i \in LabelFields(StructTypes[typ].fields) : TRUE].tag,
         StructTypes[typ].name)
  ELSE << StructTypes[typ].name >>

\* The property name of a field whose tag splits into parts
PropNameOf(fieldName, parts) ==
  IF parts[1] = "" THEN ToLower(fieldName) ELSE parts[1]

\* Whether the parts of a tag hold the option omitempty
IsOmitEmpty(parts) == \E j \in 1..Len(parts) : parts[j] = "omitempty"

\* Whether ParseEntity stores field f, whose value is v
KeepsField(f, v) ==
  /\ f.name # "_"
  /\ f.tag # "" /\ f.tag # "-"
  /\ ~ (IsOmitEmpty(Split(f.tag, ",")) /\ isZero(v))

RECURSIVE ParseProps(_, _, _, _)
\* The loop of ParseEntity over the fields of the struct
ParseProps(fields, vals, i, props) ==
  IF i > Len(fields) THEN props
  ELSE ParseProps(fields, vals, i + 1,
         IF KeepsField(fields[i], vals[i])
         THEN Put(props, PropNameOf(fields[i].name, Split(fields[i].tag, ",")), vals[i])
         ELSE props)

\* ParseEntity: labels and properties of an entity, or an error
ParseEntity(entity) ==
  IF entity.kind \notin {"ptr", "struct"}
  THEN [err |-> "entity must be a struct or a pointer to a struct",
        Labels |-> << >>, Properties |-> EmptyMap]
  ELSE [err |-> "",
        Labels |-> parseLabels(entity.typ),
        Properties |-> ParseProps(StructTypes[entity.typ].fields, entity.vals, 1, EmptyMap)]

\* ParseEntityForUpdate: the properties SetEntity assigns, or an error
ParseEntityForUpdate(entity) ==
  IF entity.kind \notin {"ptr", "struct"}
  THEN [err |-> "entity must be a struct or a pointer to a struct", props |-> EmptyMap]
  ELSE [err |-> "",
        props |-> ParseProps(StructTypes[entity.typ].fields, entity.vals, 1, EmptyMap)]

(***************************************************************************)
(* types/core.go: Labels                                                   *)
(***************************************************************************)
\* Label.IsValid
IsValid(label) == Len(label) > 0

\* Labels.Contains
ContainsLabel(ls, label) == \E i \in 1..Len(ls) : ls[i] = label

\* A variant of Labels.Add that appends every valid label
AddAlways(ls, label) == IF IsValid(label) THEN Append(ls, label) ELSE ls

\* Labels.Add
AddLabel(ls, label) ==
  IF IsValid(label) /\ ~ ContainsLabel(ls, label) THEN Append(ls, label) ELSE ls

\* Labels.Remove: the first label equal to the given one is cut out
RemoveLabel(ls, label) ==
  IF ContainsLabel(ls, label)
  THEN SubSeq(ls, 1, (CHOOSE i \in 1..Len(ls) :
                        ls[i] = label /\ \A j \in 1..(i - 1) : ls[j] # label) - 1)
       \o SubSeq(ls, (CHOOSE i \in 1..Len(ls) :
                        ls[i] = label /\ \A j \in 1..(i - 1) : ls[j] # label) + 1, Len(ls))
  ELSE ls

(***************************************************************************)
(* types/core.go: clause types                                             *)
(***************************************************************************)
MatchClause == "MATCH"
OptionalMatchClause == "OPTIONAL MATCH"
CreateClause == "CREATE"
MergeClause == "MERGE"
WhereClause == "WHERE"
SetClause == "SET"
DeleteClause == "DELETE"
DetachDeleteClause == "DETACH DELETE"
ReturnClause == "RETURN"
UnwindClause == "UNWIND"
UnionClause == "UNION"
UnionAllClause == "UNION ALL"
CallClause == "CALL"

(***************************************************************************)
(* builder/query.go: the builder and its helpers.  A builder is a record   *)
(* of the fields of cypherQueryBuilder; names is a history field that      *)
(* lists the placeholder names generateParameterName has returned, values  *)
(* the value that was stored under each of them when it was returned.      *)
(* A helper that writes text and binds parameters yields [q, s]: the       *)
(* builder after it and the text.                                          *)
(***************************************************************************)
NewQueryBuilder ==
  [ clauses |-> << >>,
    parameters |-> EmptyMap,
    paramCounter |-> 0,
    currentAlias |-> "",
    pendingEntity |-> NilEntity,
    pendingClause |-> "",
    entityAliases |-> [a \in {} |-> NilEntity],
    errors |-> << >>,
    names |-> << >>,
    values |-> << >> ]

\* A variant of addClause that puts the new clause in front of the list
addClauseFirst(q, clauseType, content) ==
  [q EXCEPT !.clauses = << [Type |-> clauseType, Content |-> content] >> \o @]

\* addClause: the clause is appended to the clause list
addClause(q, clauseType, content) ==
  [q EXCEPT !.clauses = Append(@, [Type |-> clauseType, Content |-> content])]

\* A variant of addError that drops the error
dropError(q, err) == q

\* A variant of addError that forgets the errors recorded before
keepLastError(q, err) == [q EXCEPT !.errors = << err >>]

addError(q, err) == [q EXCEPT !.errors = Append(@, err)]

\* A variant of NextCounter that advances the counter twice
NextCounterSkips(n) == n + 2

\* The counter value generateParameterName moves to
NextCounter(n) == n + 1

\* generateParameterName: the name returned
generateParameterName(q, base) ==
  ReplaceAll(base, ".", "_") \o "_" \o Itoa(NextCounter(q.paramCounter))

\* generateParameterName followed by q.parameters[paramName] = value:
\* the builder afterwards
BindAs(q, paramName, value) ==
  [q EXCEPT !.paramCounter = NextCounter(@),
            !.names = Append(@, paramName),
            !.values = Append(@, value),
            !.parameters = Put(@, paramName, value)]

Bind(q, base, value) == BindAs(q, generateParameterName(q, base), value)

RECURSIVE BindProps(_, _, _, _)
\* The loop over the sorted keys of a property map: binds one parameter per
\* key and collects the "key: $name" texts; [q, texts]
BindProps(q, keys, props, texts) ==
  IF Len(keys) = 0 THEN [q |-> q, texts |-> texts]
  ELSE BindProps(Bind(q, Head(keys), props[Head(keys)]), Tail(keys), props,
                 Append(texts, Head(keys) \o ": $" \o generateParameterName(q, Head(keys))))

\* The text of a property map whose keys were bound
PropertyMapText(r) == [q |-> r.q, s |-> " {" \o Join(r.texts, ", ") \o "}"]

\* The property map of an entity, a node or a relationship: [q, s]
buildPropertyMap(q, properties) ==
  IF DOMAIN properties = {} THEN [q |-> q, s |-> ""]
  ELSE PropertyMapText(BindProps(q, SortStrings(DOMAIN properties), properties, << >>))

RECURSIVE LabelText(_)
LabelText(labels) ==
  IF Len(labels) = 0 THEN "" ELSE ":" \o Head(labels) \o LabelText(Tail(labels))

\* A variant of RendersProperties that also gives MATCH the property map
RendersPropertiesWithMatch(clauseType) ==
  clauseType \in {MatchClause, CreateClause, MergeClause}

\* A variant of RendersProperties that gives every clause type the property map
RendersPropertiesAlways(clauseType) == clauseType = clauseType

\* Which clause types get the property map of an entity
RendersProperties(clauseType) == clauseType \in {CreateClause, MergeClause}

\* The node text "(variable:Labels" followed by a property map r and ")"
NodeText(variable, labels, r) ==
  [q |-> r.q, s |-> "(" \o variable \o LabelText(labels) \o r.s \o ")", err |-> ""]

\* buildEntityPattern for a resolved entity: [q, s, err]
EntityPatternOf(q, entityInfo, variable, clauseType) ==
  IF entityInfo.err # ""
  THEN [q |-> q, s |-> "", err |-> "failed to parse entity: " \o entityInfo.err]
  ELSE NodeText(variable, entityInfo.Labels,
                IF RendersProperties(clauseType)
                THEN buildPropertyMap(q, entityInfo.Properties)
                ELSE [q |-> q, s |-> ""])

\* buildEntityPattern: [q, s, err]
buildEntityPattern(q, entity, variable, clauseType) ==
  EntityPatternOf(q, ParseEntity(entity), variable, clauseType)

\* A variant of FinalizeAlias that renders the pending entity without a variable
NoAlias(q) == ""

\* The alias finalizePendingClause renders the pending entity with
FinalizeAlias(q) == q.currentAlias

\* A variant of ClearPending that leaves the entity pending
KeepPending(q) == q

\* The end of finalizePendingClause: the pending slot is cleared
ClearPending(q) == [q EXCEPT !.pendingEntity = NilEntity, !.pendingClause = ""]

\* finalizePendingClause once the pattern r of the pending entity is built
FinishPending(clauseType, r) ==
  ClearPending(IF r.err # "" THEN addError(r.q, r.err)
               ELSE addClause(r.q, clauseType, r.s))

\* finalizePendingClause
finalizePendingClause(q) ==
  IF q.pendingEntity = NilEntity THEN q
  ELSE FinishPending(q.pendingClause,
         buildEntityPattern(q, q.pendingEntity, FinalizeAlias(q), q.pendingClause))

\* An argument that is a Go string is [str |-> s]
IsString(p) == "str" \in DOMAIN p
Str(s) == [str |-> s]

\* A variant of HoldOrAppend that renders an entity at once instead of holding it
HoldOrAppendEager(q, clauseType, p) ==
  IF IsString(p)
  THEN addClause(q, clauseType, p.str)
  ELSE finalizePendingClause([q EXCEPT !.pendingEntity = p, !.pendingClause = clauseType])

\* handleEntityClause after its call of finalizePendingClause
HoldOrAppend(q, clauseType, p) ==
  IF IsString(p)
  THEN addClause(q, clauseType, p.str)
  ELSE [q EXCEPT !.pendingEntity = p, !.pendingClause = clauseType]

\* handleEntityClause: p is a pattern string or an entity
handleEntityClause(q, clauseType, p) ==
  HoldOrAppend(finalizePendingClause(q), clauseType, p)

\* A variant of AsQ that does not record the alias of the held entity
AsForgets(q, alias) == finalizePendingClause([q EXCEPT !.currentAlias = alias])

\* A variant of AsQ that records the alias when no entity is held as well
AsRecords(q, alias) ==
  finalizePendingClause(
    [q EXCEPT !.currentAlias = alias,
              !.entityAliases = Put(@, alias, q.pendingEntity)])

\* As
AsQ(q, alias) ==
  IF q.pendingEntity = NilEntity
  THEN [q EXCEPT !.currentAlias = alias]
  ELSE finalizePendingClause(
         [q EXCEPT !.currentAlias = alias,
                   !.entityAliases = Put(@, alias, q.pendingEntity)])

(***************************************************************************)
(* types/predicate.go and builder/expression.go: conditions                *)
(***************************************************************************)
OpEqual == "="
OpGreaterThan == ">"
OpIsNull == "IS NULL"
OpIsNotNull == "IS NOT NULL"
OpAnd == "AND"
OpOr == "OR"

\* A condition: a Predicate, a LogicalGroup (value), a pointer to a LogicalGroup,
\* or another variant of the Condition interface (ExistsClause).
Predicate(property, operator, value, not) ==
  [type |-> "Predicate", Property |-> property, Operator |-> operator,
   Value |-> value, Not |-> not, Conditions |-> << >>]
LogicalGroup(operator, conditions) ==
  [type |-> "LogicalGroup", Property |-> "", Operator |-> operator,
   Value |-> NilV, Not |-> FALSE, Conditions |-> conditions]
PtrLogicalGroup(operator, conditions) ==
  [type |-> "PtrLogicalGroup", Property |-> "", Operator |-> operator,
   Value |-> NilV, Not |-> FALSE, Conditions |-> conditions]
ExistsClause ==
  [type |-> "ExistsClause", Property |-> "", Operator |-> "",
   Value |-> NilV, Not |-> FALSE, Conditions |-> << >>]

Eq(property, value) == Predicate(property, OpEqual, value, FALSE)
Gt(property, value) == Predicate(property, OpGreaterThan, value, FALSE)
IsNull(property) == Predicate(property, OpIsNull, NilV, FALSE)
IsNotNull(property) == Predicate(property, OpIsNotNull, NilV, FALSE)
\* Not: toggles the flag of a predicate and returns any other condition as it is
Not(condition) ==
  IF condition.type = "Predicate" THEN [condition EXCEPT !.Not = ~ @] ELSE condition
And(conditions) == LogicalGroup(OpAnd, conditions)
Or(conditions) == LogicalGroup(OpOr, conditions)

\* A variant of QualifiedProperty that prefixes the alias to a property that
\* has a dot as well
QualifiedAlways(currentAlias, prop) ==
  IF currentAlias # "" THEN currentAlias \o "." \o prop ELSE prop

\* The property text of a predicate under the current alias
QualifiedProperty(currentAlias, prop) ==
  IF ~ Contains(prop, ".") /\ currentAlias # ""
  THEN currentAlias \o "." \o prop
  ELSE prop

\* The text of a predicate, wrapped in NOT (...) when negated
NotText(not, s) == IF not THEN "NOT (" \o s \o ")" ELSE s

\* A variant of PredicateOf that binds a parameter whatever the operator
PredicateBindsAlways(q, c, prop) ==
  [q |-> Bind(q, ReplaceAll(prop, ".", "_"), c.Value),
   s |-> NotText(c.Not, prop \o " " \o c.Operator \o " $"
                        \o generateParameterName(q, ReplaceAll(prop, ".", "_")))]

\* buildConditionString for a Predicate whose property text is prop: [q, s]
PredicateOf(q, c, prop) ==
  IF c.Operator = OpIsNull \/ c.Operator = OpIsNotNull
  THEN [q |-> q, s |-> NotText(c.Not, prop \o " " \o c.Operator)]
  ELSE [q |-> Bind(q, ReplaceAll(prop, ".", "_"), c.Value),
        s |-> NotText(c.Not, prop \o " " \o c.Operator \o " $"
                             \o generateParameterName(q, ReplaceAll(prop, ".", "_")))]

\* A variant of AppendChild that puts the child in front of the text so far
AppendChildFirst(acc, sep, r) == [q |-> r.q, s |-> r.s \o sep \o acc]

\* A child text r appended to the text acc of a group, after the separator
AppendChild(acc, sep, r) == [q |-> r.q, s |-> acc \o sep \o r.s]

\* The parentheses around the children of a group
GroupText(r) == [q |-> r.q, s |-> "(" \o r.s \o ")"]

RECURSIVE buildConditionString(_, _)
RECURSIVE buildGroupChildren(_, _, _)
\* The loop of buildConditionString over the children of a group, from child
\* i on; acc is [q, s] so far
buildGroupChildren(acc, c, i) ==
  IF i > Len(c.Conditions) THEN acc
  ELSE buildGroupChildren(
         AppendChild(acc.s, IF i > 1 THEN " " \o c.Operator \o " " ELSE "",
                     buildConditionString(acc.q, c.Conditions[i])),
         c, i + 1)

\* buildConditionString: [q, s], s the text written to the string builder
buildConditionString(q, c) ==
  CASE c.type = "Predicate" ->
         PredicateOf(q, c, QualifiedProperty(q.currentAlias, c.Property))
    [] c.type \in {"LogicalGroup", "PtrLogicalGroup"} ->
         GroupText(buildGroupChildren([q |-> q, s |-> ""], c, 1))
    [] OTHER -> [q |-> q, s |-> ""]

(***************************************************************************)
(* builder/query.go: patterns                                              *)
(***************************************************************************)
DirectionOutgoing == "->"
DirectionIncoming == "<-"
DirectionBoth == "--"

\* An optional length bound (*int): absent, or a number
NoLength == [set |-> FALSE, n |-> 0]
Length(n) == [set |-> TRUE, n |-> n]

NodePattern(variable, labels, properties) ==
  [Variable |-> variable, Labels |-> labels, Properties |-> properties]
RelationshipPattern(variable, type, direction, min, max, properties) ==
  [Variable |-> variable, Type |-> type, Direction |-> direction,
   MinLength |-> min, MaxLength |-> max, Properties |-> properties]
Pattern(startNode, rel, endNode) ==
  [StartNode |-> startNode, Relationship |-> rel, EndNode |-> endNode]

\* buildNodePatternString: [q, s]
buildNodePatternString(q, node) ==
  NodeText(node.Variable, node.Labels, buildPropertyMap(q, node.Properties))

\* The text written before the opening bracket of a relationship
RelationshipStart(direction) ==
  IF direction = DirectionIncoming THEN "<-<" ELSE "-"

\* The text written after the closing bracket of a relationship
RelationshipEnd(direction) ==
  CASE direction = DirectionIncoming -> "-"
    [] direction = DirectionOutgoing -> "->"
    [] direction = DirectionBoth -> "-"
    [] OTHER -> "->"

\* The variable-length part of a relationship
LengthText(min, max) ==
  IF min.set \/ max.set
  THEN "*" \o (IF min.set THEN Itoa(min.n) ELSE "")
           \o (IF max.set THEN "..<" \o Itoa(max.n)
               ELSE IF min.set THEN "..<" ELSE "")
  ELSE ""

\* The text of a relationship whose property map is r
RelationshipText(rel, r) ==
  [q |-> r.q,
   s |-> RelationshipStart(rel.Direction) \o "[" \o rel.Variable
         \o (IF rel.Type # "" THEN ":" \o rel.Type ELSE "")
         \o LengthText(rel.MinLength, rel.MaxLength)
         \o r.s \o "]" \o RelationshipEnd(rel.Direction)]

\* buildRelationshipPatternString: [q, s]
buildRelationshipPatternString(q, rel) ==
  RelationshipText(rel, buildPropertyMap(q, rel.Properties))

(***************************************************************************)
(* builder: relationshipBuilder.String, for a pattern without properties   *)
(***************************************************************************)
\* The text String writes before the opening bracket
StringStart(direction) == IF direction = DirectionIncoming THEN "<-" ELSE "-"

\* The variable-length part String writes
StringLength(min, max) ==
  IF min.set \/ max.set
  THEN "*" \o (IF min.set THEN Itoa(min.n) ELSE "")
           \o (IF max.set THEN ".." \o Itoa(max.n)
               ELSE IF min.set THEN ".." ELSE "")
  ELSE ""

\* The text String writes after the closing bracket
StringEnd(direction) ==
  CASE direction = DirectionIncoming -> "-"
    [] direction = DirectionOutgoing -> "->"
    [] direction = DirectionBoth -> "-"
    [] OTHER -> "->"

\* relationshipBuilder.String of a builder that holds the pattern rel, whose
\* property map is empty
RelationshipBuilderString(rel) ==
  StringStart(rel.Direction) \o "[" \o rel.Variable
    \o (IF rel.Type # "" THEN ":" \o rel.Type ELSE "")
    \o StringLength(rel.MinLength, rel.MaxLength)
    \o "]" \o StringEnd(rel.Direction)

\* A part r written after the text s of the parts before it
AppendPart(s, r) == [q |-> r.q, s |-> s \o r.s]

\* The parts of buildPatternString after the start node a
PatternAfterRel(a, pattern) == AppendPart(a.s, buildNodePatternString(a.q, pattern.EndNode))
PatternAfterStart(a, pattern) ==
  PatternAfterRel(AppendPart(a.s, buildRelationshipPatternString(a.q, pattern.Relationship)),
                  pattern)

\* buildPatternString: [q, s]
buildPatternString(q, pattern) ==
  PatternAfterStart(buildNodePatternString(q, pattern.StartNode), pattern)

(***************************************************************************)
(* validator/query.go                                                      *)
(***************************************************************************)
Opening(c) == c \in {"(", "[", "{"}
Closing(c) == c \in {")", "]", "}"}
\* A variant of Pair that takes the round bracket for every closing bracket
PairRound(c) == "("

Pair(c) == CASE c = ")" -> "(" [] c = "]" -> "[" [] c = "}" -> "{" [] OTHER -> ""

RECURSIVE Brackets(_, _, _)
\* The brackets among the characters lo..hi of the query, in order
\* (evaluated by halves)
Brackets(query, lo, hi) ==
  IF lo > hi THEN ""
  ELSE IF lo = hi
       THEN (IF Opening(Char(query, lo)) \/ Closing(Char(query, lo))
             THEN Char(query, lo) ELSE "")
       ELSE Brackets(query, lo, (lo + hi) \div 2)
            \o Brackets(query, ((lo + hi) \div 2) + 1, hi)

RECURSIVE ScanBrackets(_, _, _)
\* The loop of validateBrackets over the brackets bs of the query (the other
\* characters leave the stack alone): stack is the string of open brackets
ScanBrackets(bs, i, stack) ==
  IF i > Len(bs) THEN Len(stack) = 0
  ELSE IF Opening(Char(bs, i)) THEN ScanBrackets(bs, i + 1, stack \o Char(bs, i))
  ELSE IF Len(stack) = 0 \/ Char(stack, Len(stack)) # Pair(Char(bs, i))
       THEN FALSE
       ELSE ScanBrackets(bs, i + 1, SubSeq(stack, 1, Len(stack) - 1))

validateBrackets(query) == ScanBrackets(Brackets(query, 1, Len(query)), 1, "")

validClauses ==
  << "MATCH", "CREATE", "MERGE", "RETURN", "WITH", "WHERE", "UNWIND", "SET",
     "DELETE", "REMOVE" >>

\* A variant of HasValidClause that finds a keyword in every query
HasAnyClause(upperQuery) == TRUE

\* Whether the upper-cased query contains a clause keyword
HasValidClause(upperQuery) ==
  \E i \in 1..Len(validClauses) : Contains(upperQuery, validClauses[i])

\* validateKeywords: the list of error types
validateKeywords(query) ==
  IF HasValidClause(ToUpper(query)) THEN << >> ELSE << "no_valid_clause" >>

\* Validate: the list of the types of the errors found
ValidateQuery(query) ==
  IF query = "" THEN << "empty_query" >>
  ELSE (IF validateBrackets(query) THEN << >> ELSE << "bracket_mismatch" >>)
       \o validateKeywords(query)

(***************************************************************************)
(* builder/query.go: the methods, as functions of the builder              *)
(***************************************************************************)
\* The line of a clause in the query text
\* A variant of ClauseLine that writes the blank also before an empty content
ClauseLineSpaced(clause) == clause.Type \o " " \o clause.Content

ClauseLine(clause) ==
  IF clause.Content # "" THEN clause.Type \o " " \o clause.Content ELSE clause.Type

RECURSIVE ClauseLines(_)
ClauseLines(clauses) ==
  IF Len(clauses) = 0 THEN << >>
  ELSE << ClauseLine(Head(clauses)) >> \o ClauseLines(Tail(clauses))

NL == "\n"

\* The query text of a clause list
QueryText(clauses) == Join(ClauseLines(clauses), NL)

\* Validate (of the builder)
Validate(q) == ValidateQuery(QueryText(q.clauses))

\* A QueryResult and the error returned with it.  Parameters is a Go map, a
\* reference: params = TRUE says that it is the parameter table of the builder
\* itself, FALSE that it is the nil map of the empty QueryResult.
EmptyResult(err) ==
  [Query |-> "", params |-> FALSE, Valid |-> FALSE, Errors |-> << >>, err |-> err]

\* A variant of QueryResult that is valid whatever the validator found
QueryResultValid(query, errors) ==
  [Query |-> query, params |-> TRUE, Valid |-> TRUE, Errors |-> errors, err |-> ""]

QueryResult(query, errors) ==
  [Query |-> query, params |-> TRUE, Valid |-> Len(errors) = 0, Errors |-> errors,
   err |-> ""]

\* What the Parameters of a result show when the builder that returned it is
\* q: the table of the builder, as the map is shared and never copied
ParametersOf(result, q) == IF result.params THEN q.parameters ELSE EmptyMap

\* Build after its call of finalizePendingClause: [q, result]
BuildFinalized(q) ==
  IF Len(q.errors) > 0
  THEN [q |-> q, result |-> EmptyResult(Join(q.errors, "; "))]
  ELSE [q |-> q, result |-> QueryResult(QueryText(q.clauses), Validate(q))]

\* A variant of Build that joins the clauses without finalizing first
BuildUnfinalized(q) == BuildFinalized(q)

\* Build: [q, result]
BuildQ(q) == BuildFinalized(finalizePendingClause(q))

\* The WHERE clause of a rendered condition r
AddWhere(r) == addClause(r.q, WhereClause, r.s)

\* Where after its call of finalizePendingClause
WhereFinalized(q, conditions) ==
  IF Len(conditions) = 0 THEN q
  ELSE AddWhere(buildConditionString(q, PtrLogicalGroup(OpAnd, conditions)))

\* Where
WhereQ(q, conditions) == WhereFinalized(finalizePendingClause(q), conditions)

\* The methods that finalize and append one clause of joined strings:
\* Set, WhereString, OrderBy, Remove, Use, Union, UnionAll
SimpleClauseQ(q, clauseType, content) ==
  addClause(finalizePendingClause(q), clauseType, content)

\* formatExpressions for string expressions: the text
formatExpressions(expressions) == Join(expressions, ", ")

\* Return, With
ExpressionClauseQ(q, clauseType, expressions) ==
  addClause(finalizePendingClause(q), clauseType, formatExpressions(expressions))

\* SetParameter
SetParameterQ(q, key, value) == [q EXCEPT !.parameters = Put(@, key, value)]

\* The clause of a rendered pattern r
AddPattern(clauseType, r) == addClause(r.q, clauseType, r.s)

\* MatchPattern, CreatePattern, MergePattern
PatternClauseQ(q, clauseType, pattern) ==
  AddPattern(clauseType, buildPatternString(finalizePendingClause(q), pattern))

\* The list argument of Unwind and ForEach: a string, or a []interface{}
\* (a ListV) that is bound as a parameter; [q, s]
ListText(q, list, base) ==
  IF IsString(list) THEN [q |-> q, s |-> list.str]
  ELSE [q |-> Bind(q, base, list), s |-> "$" \o generateParameterName(q, base)]

AddUnwind(r, alias) == addClause(r.q, UnwindClause, r.s \o " AS " \o alias)

\* Unwind
UnwindQ(q, list, alias) ==
  AddUnwind(ListText(finalizePendingClause(q), list, "list"), alias)

\* A variable of Delete/DetachDelete: a string [str |-> s], a types.Entity
\* [Struct, Alias], or an entity value
IsEntityRef(v) == "Alias" \in DOMAIN v
EntityRef(struct, alias) == [Struct |-> struct, Alias |-> alias]

\* %T of an entity value
TypeName(e) ==
  CASE e.kind = "ptr" -> "*tests." \o StructTypes[e.typ].name
    [] e.kind = "struct" -> "tests." \o StructTypes[e.typ].name
    [] e.kind = "int" -> "int"
    [] OTHER -> "<nil>"

\* The aliases under which entityAliases holds the entity value v
AliasesOf(entityAliases, v) ==
  { a \in DOMAIN entityAliases : entityAliases[a] = v }

RECURSIVE formatDeleteVariables(_, _, _, _)
\* formatDeleteVariables: the set of outcomes [q, parts]; the alias of an
\* entity value is found by ranging over the map entityAliases, in an order
\* Go leaves open, so every alias bound to the value is a possible outcome.
formatDeleteVariables(q, variables, i, parts) ==
  IF i > Len(variables) THEN { [q |-> q, parts |-> parts] }
  ELSE IF IsString(variables[i])
  THEN formatDeleteVariables(q, variables, i + 1, Append(parts, variables[i].str))
  ELSE IF IsEntityRef(variables[i])
  THEN formatDeleteVariables(q, variables, i + 1, Append(parts, variables[i].Alias))
  ELSE IF AliasesOf(q.entityAliases, variables[i]) = {}
  THEN formatDeleteVariables(
         addError(q, "could not find alias for entity to delete: "
                     \o TypeName(variables[i])),
         variables, i + 1, parts)
  ELSE UNION { formatDeleteVariables(q, variables, i + 1, Append(parts, a))
               : a \in AliasesOf(q.entityAliases, variables[i]) }

\* Delete, DetachDelete: the set of builders the call can leave
DeleteClauseQ(q, clauseType, variables) ==
  { addClause(r.q, clauseType, Join(r.parts, ", "))
    : r \in formatDeleteVariables(finalizePendingClause(q), variables, 1, << >>) }

RECURSIVE AssignProps(_, _, _, _, _)
\* The loop of SetEntity over the property map, in the order keys: [q, texts]
AssignProps(q, keys, props, alias, texts) ==
  IF Len(keys) = 0 THEN [q |-> q, texts |-> texts]
  ELSE AssignProps(Bind(q, Head(keys), props[Head(keys)]), Tail(keys), props, alias,
                   Append(texts, alias \o "." \o Head(keys) \o " = $"
                                 \o generateParameterName(q, Head(keys))))

\* The orders in which a range over a map can visit its keys
RangeOrders(keys) ==
  { o \in [1..Cardinality(keys) -> keys] : \A k \in keys : \E i \in DOMAIN o : o[i] = k }

\* The SET clause of the assignments r
AddAssignments(r) ==
  IF Len(r.texts) > 0 THEN addClause(r.q, SetClause, Join(r.texts, ", ")) ELSE r.q

\* SetEntity after finalizePendingClause and ParseEntityForUpdate
SetEntityOf(q, u, alias, order) ==
  IF u.err # "" THEN addError(q, u.err)
  ELSE AddAssignments(AssignProps(q, order, u.props, alias, << >>))

\* SetEntity, with the order in which the range visits the properties
SetEntityQ(q, entity, alias, order) ==
  SetEntityOf(finalizePendingClause(q), ParseEntityForUpdate(entity), alias, order)

RECURSIVE MergeParameters(_, _, _)
\* The loop of Call that copies the parameters of the subquery
MergeParameters(target, source, keys) ==
  IF keys = {} THEN target
  ELSE MergeParameters(Put(target, CHOOSE x \in keys : TRUE, source[CHOOSE x \in keys : TRUE]),
                       source, keys \ {CHOOSE x \in keys : TRUE})

\* The counter Call hands to the sub-builder before it builds it
HandedCounter(q, sub) == q.paramCounter

\* The counter Call takes back from the sub-builder
TakenCounter(q, sub) == sub.paramCounter

\* Call once the sub-builder is built (r is what its Build returned): [q, sub]
CallBuilt(q, r) ==
  IF r.result.err # ""
  THEN [q |-> addError(q, "failed to build subquery: " \o r.result.err), sub |-> r.q]
  ELSE [q |-> addClause(
                [q EXCEPT !.paramCounter = TakenCounter(q, r.q),
                          !.parameters = MergeParameters(@, r.q.parameters,
                                                         DOMAIN r.q.parameters)],
                CallClause, "{" \o NL \o r.result.Query \o NL \o "}"),
        sub |-> r.q]

\* Call after its call of finalizePendingClause
CallFinalized(q, sub) ==
  CallBuilt(q, BuildQ([sub EXCEPT !.paramCounter = HandedCounter(q, sub)]))

\* Call with a *cypherQueryBuilder: [q, sub], both builders after the call
CallQ(q, sub) == CallFinalized(finalizePendingClause(q), sub)

\* Call with a QueryBuilder that is no *cypherQueryBuilder
CallForeignQ(q) ==
  addError(finalizePendingClause(q), "subquery is not a valid *cypherQueryBuilder")

(***************************************************************************)
(* The state: the builders, the calls made so far in order (hist), the     *)
(* last call with the builders before it and what it returned, the number  *)
(* of calls made and the number allowed, and a types.Labels collection     *)
(* of the caller (ls).                                                     *)
(***************************************************************************)
VARIABLES qb, hist, last, calls, limit, ls
vars == << qb, hist, last, calls, limit, ls >>

\* Builder 1 is the builder of the caller, builder 2 the one it embeds with Call
Builders == {1, 2}

NoResult == EmptyResult("")

\* A call: the method, the builder it is called on, its arguments
CallOf(op, b, arg) == [op |-> op, b |-> b, arg |-> arg]

InitWith(n) ==
  /\ qb = [b \in Builders |-> NewQueryBuilder]
  /\ hist = << >>
  /\ last = [op |-> "New", b |-> 1, arg |-> << >>, pre |-> qb, result |-> NoResult]
  /\ calls = 0
  /\ limit = n
  /\ ls = << >>

\* What a call records besides its effect
Note(b, op, arg, result) ==
  /\ hist' = Append(hist, CallOf(op, b, arg))
  /\ last' = [op |-> op, b |-> b, arg |-> arg, pre |-> qb, result |-> result]
  /\ calls' = calls + 1
  /\ UNCHANGED limit

\* What a call on a builder records; it leaves the Labels collection alone
Record(b, op, arg, result) ==
  /\ Note(b, op, arg, result)
  /\ UNCHANGED ls

\* A variant of Step under which the parameter counter is one counter of
\* the process: every builder sees the value the call leaves
StepShared(b, op, arg, q2, result) ==
  /\ qb' = [x \in Builders |->
              IF x = b THEN q2 ELSE [qb[x] EXCEPT !.paramCounter = q2.paramCounter]]
  /\ Record(b, op, arg, result)

\* The effect of a call op(arg) on builder b that leaves it as q2 and returns
\* result
Step(b, op, arg, q2, result) ==
  /\ qb' = [qb EXCEPT ![b] = q2]
  /\ Record(b, op, arg, result)

\* The effect of a call of Build that yields r
StepBuild(b, r) == Step(b, "Build", << >>, r.q, r.result)

\* The effect of a call of Call that yields r
StepCall(b, sub, r) ==
  /\ qb' = [qb EXCEPT ![b] = r.q, ![sub] = r.sub]
  /\ Record(b, "Call", [sub |-> sub, clauseType |-> CallClause], NoResult)

Match(b, p) ==
  /\ calls < limit
  /\ Step(b, "Match", [p |-> p, clauseType |-> MatchClause],
          handleEntityClause(qb[b], MatchClause, p), NoResult)

OptionalMatch(b, p) ==
  /\ calls < limit
  /\ Step(b, "OptionalMatch", [p |-> p, clauseType |-> OptionalMatchClause],
          handleEntityClause(qb[b], OptionalMatchClause, p), NoResult)

Create(b, p) ==
  /\ calls < limit
  /\ Step(b, "Create", [p |-> p, clauseType |-> CreateClause],
          handleEntityClause(qb[b], CreateClause, p), NoResult)

Merge(b, p) ==
  /\ calls < limit
  /\ Step(b, "Merge", [p |-> p, clauseType |-> MergeClause],
          handleEntityClause(qb[b], MergeClause, p), NoResult)

As(b, alias) ==
  /\ calls < limit
  /\ Step(b, "As", [alias |-> alias], AsQ(qb[b], alias), NoResult)

Where(b, conditions) ==
  /\ calls < limit
  /\ Step(b, "Where", [conditions |-> conditions, clauseType |-> WhereClause],
          WhereQ(qb[b], conditions), NoResult)

Return(b, expressions) ==
  /\ calls < limit
  /\ Step(b, "Return", [expressions |-> expressions, clauseType |-> ReturnClause],
          ExpressionClauseQ(qb[b], ReturnClause, expressions), NoResult)

Set(b, assignments) ==
  /\ calls < limit
  /\ Step(b, "Set", [assignments |-> assignments, clauseType |-> SetClause],
          SimpleClauseQ(qb[b], SetClause, Join(assignments, ", ")), NoResult)

SetEntity(b, entity, alias) ==
  /\ calls < limit
  /\ \E order \in RangeOrders(DOMAIN ParseEntityForUpdate(entity).props) :
       Step(b, "SetEntity", [entity |-> entity, alias |-> alias, clauseType |-> SetClause],
            SetEntityQ(qb[b], entity, alias, order), NoResult)

Delete(b, variables) ==
  /\ calls < limit
  /\ \E q2 \in DeleteClauseQ(qb[b], DeleteClause, variables) :
       Step(b, "Delete", [variables |-> variables, clauseType |-> DeleteClause],
            q2, NoResult)

DetachDelete(b, variables) ==
  /\ calls < limit
  /\ \E q2 \in DeleteClauseQ(qb[b], DetachDeleteClause, variables) :
       Step(b, "DetachDelete", [variables |-> variables, clauseType |-> DetachDeleteClause],
            q2, NoResult)

Union(b) ==
  /\ calls < limit
  /\ Step(b, "Union", [clauseType |-> UnionClause],
          SimpleClauseQ(qb[b], UnionClause, ""), NoResult)

UnionAll(b) ==
  /\ calls < limit
  /\ Step(b, "UnionAll", [clauseType |-> UnionAllClause],
          SimpleClauseQ(qb[b], UnionAllClause, ""), NoResult)

SetParameter(b, key, value) ==
  /\ calls < limit
  /\ Step(b, "SetParameter", [key |-> key, value |-> value],
          SetParameterQ(qb[b], key, value), NoResult)

MatchPattern(b, pattern) ==
  /\ calls < limit
  /\ Step(b, "MatchPattern", [pattern |-> pattern, clauseType |-> MatchClause],
          PatternClauseQ(qb[b], MatchClause, pattern), NoResult)

CreatePattern(b, pattern) ==
  /\ calls < limit
  /\ Step(b, "CreatePattern", [pattern |-> pattern, clauseType |-> CreateClause],
          PatternClauseQ(qb[b], CreateClause, pattern), NoResult)

MergePattern(b, pattern) ==
  /\ calls < limit
  /\ Step(b, "MergePattern", [pattern |-> pattern, clauseType |-> MergeClause],
          PatternClauseQ(qb[b], MergeClause, pattern), NoResult)

Unwind(b, list, alias) ==
  /\ calls < limit
  /\ Step(b, "Unwind", [list |-> list, alias |-> alias, clauseType |-> UnwindClause],
          UnwindQ(qb[b], list, alias), NoResult)

Call(b, sub) ==
  /\ calls < limit
  /\ sub # b
  /\ StepCall(b, sub, CallQ(qb[b], qb[sub]))

CallForeign(b) ==
  /\ calls < limit
  /\ Step(b, "CallForeign", [clauseType |-> CallClause], CallForeignQ(qb[b]), NoResult)

\* Validate of the validator: the types of the errors it returns
ValidateText(query) ==
  /\ calls < limit
  /\ Step(1, "Validate", [query |-> query], qb[1], [Errors |-> ValidateQuery(query)])

\* ParseEntity of builder/entity.go, called on its own
ParseEntityCall(entity) ==
  /\ calls < limit
  /\ Step(1, "ParseEntity", [entity |-> entity], qb[1], ParseEntity(entity))

\* Where(builder.Not(condition))
WhereNot(b, condition) ==
  /\ calls < limit
  /\ Step(b, "WhereNot", [condition |-> condition, clauseType |-> WhereClause],
          WhereQ(qb[b], << Not(condition) >>), NoResult)

\* Where(builder.Not(builder.Not(condition)))
WhereNotNot(b, condition) ==
  /\ calls < limit
  /\ Step(b, "WhereNotNot", [condition |-> condition, clauseType |-> WhereClause],
          WhereQ(qb[b], << Not(Not(condition)) >>), NoResult)

\* relationshipBuilder.String of a relationship builder that was handed the
\* relationship of the pattern
RelationshipString(pattern) ==
  /\ calls < limit
  /\ Step(1, "String", [pattern |-> pattern], qb[1],
          [s |-> RelationshipBuilderString(pattern.Relationship)])

\* Labels.Add on the collection of the caller
LabelsAdd(label) ==
  /\ calls < limit
  /\ ls' = AddLabel(ls, label)
  /\ UNCHANGED qb
  /\ Note(1, "Labels.Add", [label |-> label], NoResult)

\* Labels.Remove on the collection of the caller
LabelsRemove(label) ==
  /\ calls < limit
  /\ ls' = RemoveLabel(ls, label)
  /\ UNCHANGED qb
  /\ Note(1, "Labels.Remove", [label |-> label], NoResult)

Build(b) ==
  /\ calls < limit
  /\ StepBuild(b, BuildQ(qb[b]))

(***************************************************************************)
(* Spec: builder 1 receives any call of the core interface, builder 2 (the *)
(* builder that builder 1 embeds with Call) the calls that bind parameters *)
(* and hold entities, up to MaxCalls calls in all.                         *)
(***************************************************************************)
\* The arguments of the calls
PersonPattern == Str("(n:Person)")
AgeOver25 == << Gt("age", IntV(25)) >>
IsActive == << Eq("active", BoolV(TRUE)) >>
IsTestUser == << Eq("u.username", StrV("testuser")) >>
VariableU == << Str("u") >>
EntityAlice == << UserAlice >>
KnowsPattern ==
  Pattern(NodePattern("a", << "User" >>, ("active" :> BoolV(TRUE))),
          RelationshipPattern("", "KNOWS", DirectionOutgoing, NoLength, NoLength, EmptyMap),
          NodePattern("b", << >>, EmptyMap))
ReturnU == << "u" >>
SetActive == << "u.active = false" >>
MineValue == StrV("mine")
OneList == ListV(<< IntV(1) >>)

EntityInputs(b) ==
  IF b = 1 THEN { PersonPattern, UserAlice, UserZero, NonStruct, NilEntity }
  ELSE { UserAlice }
AliasInputs(b) == IF b = 1 THEN { "u", "n" } ELSE { "u" }
WhereInputs(b) == IF b = 1 THEN { AgeOver25, IsActive, IsTestUser } ELSE { IsActive }
DeleteInputs(b) == IF b = 1 THEN { VariableU, EntityAlice } ELSE { }
PatternInputs(b) == IF b = 1 THEN { KnowsPattern } ELSE { }

Init == InitWith(MaxCalls)

Next ==
  \E b \in Builders :
    \/ \E p \in EntityInputs(b) : Match(b, p)
    \/ \E p \in EntityInputs(1) : b = 1 /\ OptionalMatch(b, p)
    \/ \E p \in EntityInputs(b) : Create(b, p)
    \/ \E p \in EntityInputs(1) : b = 1 /\ Merge(b, p)
    \/ \E a \in AliasInputs(b) : As(b, a)
    \/ \E c \in WhereInputs(b) : Where(b, c)
    \/ Return(b, ReturnU)
    \/ b = 1 /\ Set(b, SetActive)
    \/ b = 1 /\ SetEntity(b, PlainAlice, "u")
    \/ \E v \in DeleteInputs(b) : Delete(b, v)
    \/ b = 1 /\ SetParameter(b, "active_1", MineValue)
    \/ \E pt \in PatternInputs(b) : MatchPattern(b, pt)
    \/ b = 1 /\ Unwind(b, OneList, "x")
    \/ b = 1 /\ Call(b, 2)
    \/ b = 1 /\ CallForeign(b)
    \/ Build(b)

Spec == Init /\ [][Next]_vars

(***************************************************************************)
(* SpecChain: one builder receives chains of Match, As, Where, Return and  *)
(* Build, up to MaxChain calls.                                            *)
(***************************************************************************)
ChainEntities == { PlainAlice, UserAlice }
ChainAliases == { "u", "n" }
ReturnUsername == << "u.username" >>
ChainConditions == { AgeOver25, IsActive }
ChainReturns == { ReturnUsername, ReturnU }

InitChain == InitWith(MaxChain)

NextChain ==
  \/ \E p \in ChainEntities : Match(1, p)
  \/ \E a \in ChainAliases : As(1, a)
  \/ \E c \in ChainConditions : Where(1, c)
  \/ \E e \in ChainReturns : Return(1, e)
  \/ Build(1)

SpecChain == InitChain /\ [][NextChain]_vars


(***************************************************************************)
(* SpecWhere: one builder receives Create, As, Where with conditions of    *)
(* every shape (predicates, groups, nested and empty groups, an            *)
(* ExistsClause, no condition at all) and Build, up to MaxWhere calls.     *)
(***************************************************************************)
NoConditions == << >>
OrAgeActive == << Or(<< Gt("age", IntV(25)), Eq("active", BoolV(TRUE)) >>) >>
SingleChild == << And(<< Gt("age", IntV(25)) >>) >>
NestedGroups ==
  << And(<< Or(<< Gt("age", IntV(25)), Eq("active", BoolV(TRUE)) >>),
            IsNull("email") >>) >>
EmptyGroup == << And(<< >>) >>
ExistsOnly == << ExistsClause >>
EmailIsNull == << IsNull("email") >>
EmailIsNotNull == << IsNotNull("u.email") >>
NotActive == << Not(Eq("active", BoolV(TRUE))) >>
TwoConditions == << Gt("age", IntV(25)), IsNull("email") >>

WhereShapes ==
  { NoConditions, AgeOver25, IsTestUser, OrAgeActive, SingleChild, NestedGroups,
    EmptyGroup, ExistsOnly, EmailIsNull, EmailIsNotNull, NotActive, TwoConditions }

InitWhere == InitWith(MaxWhere)

NextWhere ==
  \/ Create(1, UserAlice)
  \/ \E a \in ChainAliases : As(1, a)
  \/ \E c \in WhereShapes : Where(1, c)
  \/ Build(1)

SpecWhere == InitWhere /\ [][NextWhere]_vars

(***************************************************************************)
(* SpecPattern: one builder receives MatchPattern, CreatePattern and       *)
(* MergePattern with relationships of every direction, with and without    *)
(* length bounds and properties, Create and Merge with an entity, and      *)
(* Build, up to MaxPattern calls.                                          *)
(***************************************************************************)
FollowsPattern ==
  Pattern(NodePattern("a", << >>, EmptyMap),
          RelationshipPattern("r", "FOLLOWS", DirectionIncoming, NoLength, NoLength, EmptyMap),
          NodePattern("b", << >>, EmptyMap))
FriendsPattern ==
  Pattern(NodePattern("a", << "User" >>, EmptyMap),
          RelationshipPattern("", "FRIEND", DirectionBoth, NoLength, NoLength,
                              ("since" :> IntV(2020))),
          NodePattern("b", << "User" >>, EmptyMap))

\* a to b over KNOWS, outgoing, with the length bounds min and max
KnowsOfLength(min, max) ==
  Pattern(NodePattern("a", << >>, EmptyMap),
          RelationshipPattern("", "KNOWS", DirectionOutgoing, min, max, EmptyMap),
          NodePattern("b", << >>, EmptyMap))
KnowsTwoToFour == KnowsOfLength(Length(2), Length(4))
KnowsFromTwo == KnowsOfLength(Length(2), NoLength)
KnowsUpToFour == KnowsOfLength(NoLength, Length(4))

\* A node and a relationship with two properties each
PropsPattern ==
  Pattern(NodePattern("a", << "User" >>, ("name" :> StrV("alice")) @@ ("age" :> IntV(30))),
          RelationshipPattern("r", "KNOWS", DirectionOutgoing, NoLength, NoLength,
                              ("weight" :> IntV(1)) @@ ("since" :> IntV(2020))),
          NodePattern("b", << >>, EmptyMap))

DirectedPatterns ==
  { KnowsPattern, FollowsPattern, FriendsPattern,
    KnowsTwoToFour, KnowsFromTwo, KnowsUpToFour, PropsPattern }

InitPattern == InitWith(MaxPattern)

NextPattern ==
  \/ \E pt \in DirectedPatterns : MatchPattern(1, pt)
  \/ \E pt \in DirectedPatterns : CreatePattern(1, pt)
  \/ \E pt \in DirectedPatterns : MergePattern(1, pt)
  \/ Create(1, UserAlice)
  \/ Merge(1, UserAlice)
  \/ Build(1)

SpecPattern == InitPattern /\ [][NextPattern]_vars

(***************************************************************************)
(* SpecBuild: one builder receives Match with pattern strings (one of them *)
(* with an unclosed parenthesis), with an entity and with a value that is  *)
(* no struct, Create, Merge, As, Where, Return, Union, UnionAll, Delete,   *)
(* DetachDelete, SetParameter and Build, up to MaxBuild calls.             *)
(***************************************************************************)
UnclosedPattern == Str("(n:Person")

BuildEntities == { PersonPattern, UnclosedPattern, UserAlice, NonStruct }
BuildDeletes == { VariableU, EntityAlice }

InitBuild == InitWith(MaxBuild)

NextBuild ==
  \/ \E p \in BuildEntities : Match(1, p)
  \/ Create(1, UserAlice)
  \/ Merge(1, UserAlice)
  \/ As(1, "u")
  \/ Where(1, IsActive)
  \/ Return(1, ReturnU)
  \/ Union(1)
  \/ UnionAll(1)
  \/ \E v \in BuildDeletes : Delete(1, v)
  \/ DetachDelete(1, EntityAlice)
  \/ SetParameter(1, "active_1", MineValue)
  \/ Build(1)

SpecBuild == InitBuild /\ [][NextBuild]_vars

(***************************************************************************)
(* SpecValidate: the validator is handed a text: any text of up to MaxText *)
(* brackets and letters, or one of the query texts of the tests.           *)
(***************************************************************************)
BracketAlphabet == { "(", ")", "[", "]", "{", "}", "n" }

RECURSIVE TextsOfLength(_)
TextsOfLength(n) ==
  IF n = 0 THEN { "" }
  ELSE { t \o c : t \in TextsOfLength(n - 1), c \in BracketAlphabet }

QueryTexts ==
  { "MATCH (n:Person RETURN n", "MATCH (n:Person) RETURN n",
    "MATCH (n {ids: [1]}) RETURN n", "MATCH (n {ids: [1}]) RETURN n",
    "(n:Person)", "(n:Person", "match (n) return n", "UNION" }

ValidateTexts == QueryTexts \cup UNION { TextsOfLength(n) : n \in 0..MaxText }

InitValidate == InitWith(MaxValidate)

NextValidate == \E query \in ValidateTexts : ValidateText(query)

SpecValidate == InitValidate /\ [][NextValidate]_vars

(***************************************************************************)
(* SpecEntity: ParseEntity resolves structs and pointers to structs whose  *)
(* fields tagged omitempty hold zero and other values, a struct whose      *)
(* label tag names a label twice, a value that is no struct and nil; a     *)
(* Labels collection receives Add and Remove; up to MaxEntity calls.       *)
(***************************************************************************)
ProfileInputs ==
  { ProfileZero, ProfileFull, ProfileNick, ProfileScore, ProfileVerified,
    ProfileTagged, ProfileNoTags }

ResolvedEntities ==
  ProfileInputs
    \cup { UserAlice, UserZero, PlainAlice, TwiceLabelled, NonStruct, NilEntity }

AddedLabels == { "", "Person", "Admin", "User" }
RemovedLabels == { "Person", "Admin", "User" }

InitEntity == InitWith(MaxEntity)

NextEntity ==
  \/ \E entity \in ResolvedEntities : ParseEntityCall(entity)
  \/ \E label \in AddedLabels : LabelsAdd(label)
  \/ \E label \in RemovedLabels : LabelsRemove(label)

SpecEntity == InitEntity /\ [][NextEntity]_vars

(***************************************************************************)
(* SpecTwo: two builders receive Create, As, Where, Return and Build in    *)
(* any interleaving, neither is handed to Call, up to MaxTwo calls.        *)
(***************************************************************************)
InitTwo == InitWith(MaxTwo)

NextTwo ==
  \E b \in Builders :
    \/ Create(b, UserAlice)
    \/ As(b, "u")
    \/ Where(b, IsActive)
    \/ Return(b, ReturnU)
    \/ Build(b)

SpecTwo == InitTwo /\ [][NextTwo]_vars

(***************************************************************************)
(* SpecNot: one builder receives Create, As, Where(Not(c)) and             *)
(* Where(Not(Not(c))) for predicates and groups c, and Build, up to MaxNot *)
(* calls.                                                                  *)
(***************************************************************************)
AgeCondition == Gt("age", IntV(25))
EmailCondition == IsNull("email")
OrCondition == Or(<< Gt("age", IntV(25)), Eq("active", BoolV(TRUE)) >>)
AndCondition == And(<< Eq("active", BoolV(TRUE)) >>)

NegatedConditions == { AgeCondition, EmailCondition, OrCondition, AndCondition }

InitNot == InitWith(MaxNot)

NextNot ==
  \/ Create(1, UserAlice)
  \/ As(1, "u")
  \/ \E c \in NegatedConditions : WhereNot(1, c)
  \/ \E c \in NegatedConditions : WhereNotNot(1, c)
  \/ Build(1)

SpecNot == InitNot /\ [][NextNot]_vars

(***************************************************************************)
(* SpecSame: builder 1 receives up to MaxSame calls of Match, As,          *)
(* SetEntity and Delete; then builder 2, fresh as well, receives the same   *)
(* calls with the same arguments in the same order.                        *)
(***************************************************************************)
\* The calls made so far on builder b, in order
CallsOn(b) == SelectSeq(hist, LAMBDA c : c.b = b)

\* Whether the last of the calls mine repeats the call of theirs at its place
Repeats(mine, theirs) ==
  /\ Len(mine) <= Len(theirs)
  /\ mine[Len(mine)].op = theirs[Len(mine)].op
  /\ mine[Len(mine)].arg = theirs[Len(mine)].arg

\* Builder 1 is called as long as builder 2 has not been called
InTurn(b) == b = 1 => (CallsOn(2) = << >> /\ Len(CallsOn(1)) < MaxSame)

\* A call on builder 2 repeats the call builder 1 received at its place
Repeated(b) == b = 2 => Repeats(CallsOn(2), CallsOn(1))

InitSame == InitWith(MaxSame + MaxSame)

NextSame ==
  \E b \in Builders :
    \/ InTurn(b) /\ Match(b, UserAlice) /\ Repeated(b)'
    \/ InTurn(b) /\ As(b, "u") /\ Repeated(b)'
    \/ InTurn(b) /\ As(b, "n") /\ Repeated(b)'
    \/ InTurn(b) /\ SetEntity(b, ProfileZero, "u") /\ Repeated(b)'
    \/ InTurn(b) /\ Delete(b, EntityAlice) /\ Repeated(b)'

SpecSame == InitSame /\ [][NextSame]_vars

(***************************************************************************)
(* SpecRelationship: relationships without properties, of every direction, *)
(* with and without variable, type and length bounds, are rendered by      *)
(* MatchPattern, CreatePattern and MergePattern of a builder and by        *)
(* String of a relationship builder, up to MaxRelationship calls.          *)
(***************************************************************************)
BothPattern ==
  Pattern(NodePattern("a", << >>, EmptyMap),
          RelationshipPattern("r", "", DirectionBoth, NoLength, NoLength, EmptyMap),
          NodePattern("b", << >>, EmptyMap))

BarePatterns ==
  { KnowsPattern, FollowsPattern, BothPattern,
    KnowsTwoToFour, KnowsFromTwo, KnowsUpToFour }

InitRelationship == InitWith(MaxRelationship)

NextRelationship ==
  \/ \E pt \in BarePatterns : MatchPattern(1, pt)
  \/ \E pt \in BarePatterns : CreatePattern(1, pt)
  \/ \E pt \in BarePatterns : MergePattern(1, pt)
  \/ \E pt \in BarePatterns : RelationshipString(pt)

SpecRelationship == InitRelationship /\ [][NextRelationship]_vars
(***************************************************************************)
(* Properties of the pending-entity protocol and of the parameter binder   *)
(***************************************************************************)
\* The builder the last call was made on, before and after the call
Before == last.pre[last.b]
After == qb[last.b]

\* Whether builder q holds an entity that ParseEntity resolves
HoldsResolvable(q) ==
  /\ q.pendingEntity # NilEntity
  /\ ParseEntity(q.pendingEntity).err = ""

\* The methods that take a pattern string or an entity
EntityOps == { "Match", "OptionalMatch", "Create", "Merge" }

\* Whether the last call handed an entity (no string, no nil) to such a method
HandedEntity ==
  /\ last.op \in EntityOps
  /\ ~ IsString(last.arg.p)
  /\ last.arg.p # NilEntity

\* Whether the last call appends a clause of its own after finalizing
AppendsOwnClause ==
  \/ last.op \in { "Where", "Return", "Set", "SetEntity", "Delete", "MatchPattern", "Unwind" }
  \/ last.op \in EntityOps /\ IsString(last.arg.p)

\* The calls that bind no parameter of their own
BindsNothingItself ==
  \/ last.op \in { "As", "Return", "Set", "Delete", "CallForeign", "Build" }
  \/ last.op \in EntityOps

\* The first clause the last call added to builder b
FirstNew(b) == qb[b].clauses[Len(last.pre[b].clauses) + 1]

\* Whether the last call added a clause to builder b
Grew(b) == Len(qb[b].clauses) > Len(last.pre[b].clauses)

\* The labels and properties of the entity builder b held before the last call
HeldInfo(b) == ParseEntity(last.pre[b].pendingEntity)

\* The aliases the calls hand to As, and the empty alias
SomeAlias == { "", "u", "n" }

RECURSIVE EmitsInOrder(_, _)
\* Whether text consists of the given lines, in their order, one per line
EmitsInOrder(text, lines) ==
  IF Len(lines) = 0 THEN text = ""
  ELSE IF Len(lines) = 1 THEN text = Head(lines)
  ELSE /\ HasPrefix(text, Head(lines) \o NL)
       /\ EmitsInOrder(TrimPrefix(text, Head(lines) \o NL), Tail(lines))

\* C1: the clause list of a builder only grows at its end; a call that finds
\* a resolvable entity pending and appends a clause of its own leaves the
\* clause of the entity right before its own clause; and the Query of a
\* successful Build is the clause list, line by line, in list order.
C1_ClausesInCallOrder ==
  /\ \A b \in Builders : IsPrefix(last.pre[b].clauses, qb[b].clauses)
  /\ (AppendsOwnClause /\ HoldsResolvable(Before))
       => /\ Len(After.clauses) = Len(Before.clauses) + 2
          /\ After.clauses[Len(Before.clauses) + 1].Type = Before.pendingClause
          /\ After.clauses[Len(Before.clauses) + 2].Type = last.arg.clauseType
  /\ (last.op = "Build" /\ last.result.err = "")
       => EmitsInOrder(last.result.Query, ClauseLines(After.clauses))

\* Match(user).Return("u").Build() was called and gave MATCH before RETURN
C1_MatchReturnBuilt ==
  /\ hist = << CallOf("Match", 1, [p |-> UserAlice, clauseType |-> MatchClause]),
               CallOf("Return", 1, [expressions |-> << "u" >>, clauseType |-> ReturnClause]),
               CallOf("Build", 1, << >>) >>
  /\ last.result.Query = "MATCH (:User:Person)" \o NL \o "RETURN u"

\* C2: whenever an entity a builder holds is finalized by a call other than
\* As, the node pattern of its clause starts with "(" followed at once by the
\* labels: it has no variable name.
C2_FinalizedWithoutVariable ==
  \A b \in Builders :
    (HoldsResolvable(last.pre[b]) /\ Grew(b) /\ ~ (last.op = "As" /\ last.b = b))
      => HasPrefix(FirstNew(b).Content, "(" \o LabelText(HeldInfo(b).Labels))

\* C3: a call of a method other than As on a builder that holds an entity
\* appends the clause of the entity or records its error, and the builder
\* holds that entity no more when the call returns (after Match, Create, ...
\* with an entity it holds the new entity).
C3_EveryOtherMethodFlushes ==
  (last.op \notin { "New", "As" } /\ Before.pendingEntity # NilEntity)
    => /\ Len(After.clauses) + Len(After.errors)
            > Len(Before.clauses) + Len(Before.errors)
       /\ After.pendingEntity = IF HandedEntity THEN last.arg.p ELSE NilEntity

\* C4: As(alias) on a builder that holds a resolvable entity appends exactly
\* one clause, of the pending clause type, whose node pattern starts with
\* "(alias:Labels" followed by the property map or ")"; the alias table maps
\* alias to the entity; the builder holds no entity and no clause type.
C4_AsFinalizesWithAlias ==
  (last.op = "As" /\ HoldsResolvable(Before))
    => /\ Len(After.clauses) = Len(Before.clauses) + 1
       /\ IsPrefix(Before.clauses, After.clauses)
       /\ FirstNew(last.b).Type = Before.pendingClause
       /\ \/ FirstNew(last.b).Content
               = "(" \o last.arg.alias \o LabelText(HeldInfo(last.b).Labels) \o ")"
          \/ HasPrefix(FirstNew(last.b).Content,
                       "(" \o last.arg.alias \o LabelText(HeldInfo(last.b).Labels) \o " {")
       /\ last.arg.alias \in DOMAIN After.entityAliases
       /\ After.entityAliases[last.arg.alias] = Before.pendingEntity
       /\ After.pendingEntity = NilEntity
       /\ After.pendingClause = ""
       /\ After.errors = Before.errors

\* Create(user).As("n") was called and gave the CREATE clause with variable n
C4_CreateAsCalled ==
  /\ hist = << CallOf("Create", 1, [p |-> UserAlice, clauseType |-> CreateClause]),
               CallOf("As", 1, [alias |-> "n"]) >>
  /\ qb[1].clauses
       = << [Type |-> "CREATE",
             Content |-> "(n:User:Person {active: $active_1, "
                         \o "email: $email_2, username: $username_3})"] >>
  /\ qb[1].entityAliases["n"] = UserAlice

\* C5: Match, OptionalMatch, Create or Merge with an entity, on a builder
\* that holds none, leaves the builder holding that entity and that clause
\* type, with the clause list, the parameter table, the parameter counter and
\* the error list as they were.
C5_EntityIsHeld ==
  (HandedEntity /\ Before.pendingEntity = NilEntity)
    => /\ After.pendingEntity = last.arg.p
       /\ After.pendingEntity # NilEntity
       /\ After.pendingClause = last.arg.clauseType
       /\ After.clauses = Before.clauses
       /\ After.parameters = Before.parameters
       /\ After.paramCounter = Before.paramCounter
       /\ After.names = Before.names
       /\ After.errors = Before.errors

\* Merge(user) was called after a clause was appended and the entity is held
C5_MergeHolds ==
  /\ last.op = "Merge"
  /\ last.arg.p = UserAlice
  /\ Before.pendingEntity = NilEntity
  /\ Len(Before.clauses) > 0
  /\ After.pendingEntity = UserAlice
  /\ After.pendingClause = "MERGE"

\* Whether call i of the history handed a resolvable entity to builder b
HandedResolvable(i, b) ==
  /\ hist[i].b = b
  /\ hist[i].op \in EntityOps
  /\ ~ IsString(hist[i].arg.p)
  /\ hist[i].arg.p # NilEntity
  /\ ParseEntity(hist[i].arg.p).err = ""

\* Whether text has the clause of call i: its keyword, then the node pattern
\* with some variable or none and the labels of the entity
HasClauseOf(text, i) ==
  \E a \in SomeAlias :
    Contains(text, hist[i].arg.clauseType \o " (" \o a
                   \o LabelText(ParseEntity(hist[i].arg.p).Labels))

\* The Query of the last call, a Build, has the clause of every resolvable
\* entity handed to the builder before
QueryHasEveryEntity ==
  \A i \in 1..(Len(hist) - 1) :
    HandedResolvable(i, last.b) => HasClauseOf(last.result.Query, i)

\* C6 as stated: after Build the builder holds no entity, and the Query has
\* the clause of every resolvable entity handed to the builder before Build.
C6_BuildEmitsEveryEntity ==
  last.op = "Build" => (After.pendingEntity = NilEntity /\ QueryHasEveryEntity)

\* C6: after Build the builder holds no entity, and when Build returns no
\* error the Query has the clause of every resolvable entity handed to the
\* builder before Build, the one still held when Build was called included.
C6_BuildFlushesAndEmitsWhenNoError ==
  last.op = "Build"
    => /\ After.pendingEntity = NilEntity
       /\ last.result.err = "" => QueryHasEveryEntity
       /\ last.result.err # "" => last.result.Query = ""

\* Build was called while a resolvable entity was held, and returned no error
C6_BuildWithHeldEntity ==
  /\ last.op = "Build"
  /\ HoldsResolvable(Before)
  /\ Before.pendingClause = "CREATE"
  /\ last.result.err = ""
  /\ Len(Before.clauses) > 0
  /\ Contains(last.result.Query, "CREATE (")

\* The chain Match(entity).As("u").Where(Gt("age", 25)).Return("u.username").Build()
\* on builder 1, the entity having the label User and the property username
TheChain ==
  << CallOf("Match", 1, [p |-> PlainAlice, clauseType |-> MatchClause]),
     CallOf("As", 1, [alias |-> "u"]),
     CallOf("Where", 1, [conditions |-> << Gt("age", IntV(25)) >>,
                         clauseType |-> WhereClause]),
     CallOf("Return", 1, [expressions |-> << "u.username" >>,
                          clauseType |-> ReturnClause]),
     CallOf("Build", 1, << >>) >>

FinalizedWithProperties(b) ==
  /\ HoldsResolvable(last.pre[b])
  /\ DOMAIN HeldInfo(b).Properties # {}
  /\ Grew(b)

\* Whether the node pattern text has a property map with every key of props
HasPropertyMap(text, props) ==
  /\ Contains(text, " {")
  /\ \A k \in DOMAIN props : Contains(text, k \o ": $" \o k \o "_")

\* Whether text is the node pattern of the labels alone, with some variable or none
IsLabelsOnly(text, labels) ==
  \E a \in SomeAlias : text = "(" \o a \o LabelText(labels) \o ")"

\* Whether the last call bound, on builder b, nothing besides its own parameters
BoundNothingFor(b) ==
  (b # last.b \/ BindsNothingItself)
    => (qb[b].names = last.pre[b].names /\ qb[b].parameters = last.pre[b].parameters)

TheSetTestChain ==
  << CallOf("Match", 1, [p |-> UserZero, clauseType |-> MatchClause]),
     CallOf("As", 1, [alias |-> "u"]),
     CallOf("Where", 1, [conditions |-> << Eq("u.username", StrV("testuser")) >>,
                         clauseType |-> WhereClause]) >>

\* C9: As(alias) on a builder holding a resolvable MATCH entity appends
\* MATCH (alias:Label1:Label2) with no property map; a call that finalizes a
\* MATCH entity and binds nothing itself leaves the parameter table and the
\* parameter counter as they were; and Match(&User{}).As("u").Where(Eq(
\* "u.username", ...)) gives MATCH (u:User:Person), WHERE (u.username =
\* $u_username_1) and exactly one parameter.
C9_MatchBindsNothing ==
  /\ (last.op = "As" /\ HoldsResolvable(Before) /\ Before.pendingClause = "MATCH")
       => After.clauses
            = Append(Before.clauses,
                     [Type |-> "MATCH",
                      Content |-> "(" \o last.arg.alias
                                  \o LabelText(HeldInfo(last.b).Labels) \o ")"])
  /\ (HoldsResolvable(Before) /\ Before.pendingClause = "MATCH"
        /\ BindsNothingItself)
       => /\ After.parameters = Before.parameters
          /\ After.paramCounter = Before.paramCounter
  /\ hist = TheSetTestChain
       => /\ qb[1].clauses
               = << [Type |-> "MATCH", Content |-> "(u:User:Person)"],
                    [Type |-> "WHERE", Content |-> "(u.username = $u_username_1)"] >>
          /\ qb[1].parameters = Put(EmptyMap, "u_username_1", StrV("testuser"))
          /\ qb[1].paramCounter = 1

\* The chain of the test was called
C9_SetTestChainCalled ==
  /\ hist = TheSetTestChain
  /\ qb[1].names = << "u_username_1" >>

\* C10: the placeholder names generateParameterName has returned to one
\* builder are pairwise distinct.
C10_NamesPairwiseDistinct ==
  \A b \in Builders :
    \A i, j \in 1..Len(qb[b].names) : i < j => qb[b].names[i] # qb[b].names[j]


(***************************************************************************)
(* The parameter counter and the parameter table across Call               *)
(***************************************************************************)
\* The calls made before the last one
Earlier == SubSeq(hist, 1, Len(hist) - 1)

\* Builder b was built before the last call, by Build or as the sub-builder
\* of a Call
BuiltBefore(b) ==
  \E i \in 1..Len(Earlier) :
    \/ Earlier[i].op = "Build" /\ Earlier[i].b = b
    \/ Earlier[i].op = "Call" /\ Earlier[i].arg.sub = b

\* The placeholder names builder b has generated so far
NamesOf(b) == { qb[b].names[j] : j \in 1..Len(qb[b].names) }

\* The last call was a Call that embedded the sub-builder
Embedded ==
  /\ last.op = "Call"
  /\ Len(After.clauses) > 0
  /\ After.clauses[Len(After.clauses)].Type = CallClause

\* The caller has set key itself with SetParameter on builder b
SetByCaller(b, key) ==
  \E i \in 1..Len(hist) :
    hist[i].op = "SetParameter" /\ hist[i].b = b /\ hist[i].arg.key = key

\* C11: no call lowers the parameter counter of any builder, the sub-builder
\* handed to Call included, and a call other than Call raises the counter of
\* its builder by one for every name it generates.
C11_CounterNeverLowered ==
  \A b \in Builders :
    /\ qb[b].paramCounter >= last.pre[b].paramCounter
    /\ last.op # "Call"
         => qb[b].paramCounter - last.pre[b].paramCounter
              = Len(qb[b].names) - Len(last.pre[b].names)

\* C12: after outer.Call(sub) with a sub-builder that was not built before,
\* the names generated by the sub-builder and by the outer builder are
\* disjoint, and no key of the sub-builder's parameter table was a key of the
\* outer table before the merge.
C12_CallNeverCollides ==
  (Embedded /\ ~BuiltBefore(last.arg.sub))
    => /\ NamesOf(last.arg.sub) \cap NamesOf(last.b) = {}
       /\ DOMAIN qb[last.arg.sub].parameters
            \cap DOMAIN finalizePendingClause(Before).parameters = {}

\* C13: every placeholder name a builder has generated is a key of its
\* parameter table and holds the value that was bound with it, unless the
\* caller has set that key itself with SetParameter; and no clause contains
\* the text of a supplied property value.
C13_PlaceholdersHoldSuppliedValues ==
  \A b \in Builders :
    /\ \A j \in 1..Len(qb[b].names) :
         /\ qb[b].names[j] \in DOMAIN qb[b].parameters
         /\ \/ qb[b].parameters[qb[b].names[j]] = qb[b].values[j]
            \/ SetByCaller(b, qb[b].names[j])
    /\ \A i \in 1..Len(qb[b].clauses) : ~Contains(qb[b].clauses[i].Content, "alice")

(***************************************************************************)
(* Where and the rendering of conditions                                   *)
(***************************************************************************)
\* The builder the last call worked on once its pending entity was finalized
Finalized == finalizePendingClause(Before)

\* The last call was Where with at least one condition
WhereCalled == last.op = "Where" /\ Len(last.arg.conditions) > 0

\* The text of the clause the last call appended last
LastContent == After.clauses[Len(After.clauses)].Content

IsGroup(c) == c.type \in { "LogicalGroup", "PtrLogicalGroup" }

RECURSIVE ChildTexts(_, _)
\* The texts of the conditions cs rendered one after the other from builder q
ChildTexts(q, cs) ==
  IF cs = << >> THEN << >>
  ELSE << buildConditionString(q, Head(cs)).s >>
         \o ChildTexts(buildConditionString(q, Head(cs)).q, Tail(cs))

RECURSIVE GroupsAsStated(_, _)
RECURSIVE ChildrenAsStated(_, _)
\* Every group among the conditions cs, rendered one after the other from
\* builder q, is rendered as stated
ChildrenAsStated(q, cs) ==
  cs = << >>
    \/ /\ GroupsAsStated(q, Head(cs))
       /\ ChildrenAsStated(buildConditionString(q, Head(cs)).q, Tail(cs))

\* The group c, rendered from builder q, is its children's texts in list
\* order, joined with the operator between blanks, in one parenthesis pair;
\* and so is every group below it
GroupsAsStated(q, c) ==
  IsGroup(c)
    => /\ c.Operator \in { "AND", "OR" }
       /\ buildConditionString(q, c).s
            = "(" \o Join(ChildTexts(q, c.Conditions), " " \o c.Operator \o " ") \o ")"
       /\ ChildrenAsStated(q, c.Conditions)

\* C14: a LogicalGroup is rendered as its children in list order, joined
\* with ' AND ' or ' OR ' according to its operator, in exactly one pair of
\* parentheses, also with a single child; a nested group keeps its own pair.
C14_GroupRendering ==
  /\ WhereCalled
       => /\ ChildrenAsStated(Finalized, last.arg.conditions)
          /\ LastContent
               = "(" \o Join(ChildTexts(Finalized, last.arg.conditions), " AND ") \o ")"
  /\ (WhereCalled /\ last.arg.conditions = SingleChild /\ Finalized.currentAlias = "u")
       => ChildTexts(Finalized, SingleChild)
            = << "(u.age > $u_age_" \o Itoa(Finalized.paramCounter + 1) \o ")" >>
  /\ (WhereCalled /\ last.arg.conditions = NestedGroups /\ Finalized.currentAlias = "u")
       => ChildTexts(Finalized, NestedGroups)
            = << "((u.age > $u_age_" \o Itoa(Finalized.paramCounter + 1)
                 \o " OR u.active = $u_active_" \o Itoa(Finalized.paramCounter + 2)
                 \o ") AND u.email IS NULL)" >>

\* Where was called with the nested groups under alias u on a fresh builder
C14_NestedGroupsRendered ==
  /\ hist = << CallOf("As", 1, [alias |-> "u"]),
               CallOf("Where", 1, [conditions |-> NestedGroups, clauseType |-> WhereClause]) >>
  /\ LastContent = "(((u.age > $u_age_1 OR u.active = $u_active_2) AND u.email IS NULL))"

\* The chain As("u").Where(Or(Gt("age", 25), Eq("active", true)))
TheOrChain ==
  << CallOf("As", 1, [alias |-> "u"]),
     CallOf("Where", 1, [conditions |-> OrAgeActive, clauseType |-> WhereClause]) >>

\* C15: on a fresh builder with current alias u,
\* Where(Or(Gt("age", 25), Eq("active", true))) appends the clause
\* WHERE (u.age > $u_age_1 OR u.active = $u_active_2), the group in exactly
\* one pair of parentheses.
C15_WhereGroupInOnePair ==
  hist = TheOrChain
    => qb[1].clauses
         = << [Type |-> "WHERE",
               Content |-> "(u.age > $u_age_1 OR u.active = $u_active_2)"] >>

RECURSIVE CountPredicates(_)
RECURSIVE CountIn(_, _)
\* The number of predicates among the conditions cs from the i-th on
CountIn(cs, i) ==
  IF i > Len(cs) THEN 0 ELSE CountPredicates(cs[i]) + CountIn(cs, i + 1)

\* The number of predicates in the condition c
CountPredicates(c) ==
  IF c.type = "Predicate" THEN 1
  ELSE IF IsGroup(c) THEN CountIn(c.Conditions, 1)
  ELSE 0

RECURSIVE OnlyHandled(_)
\* The condition c is a Predicate or a group of such conditions
OnlyHandled(c) ==
  \/ c.type = "Predicate"
  \/ IsGroup(c) /\ \A i \in 1..Len(c.Conditions) : OnlyHandled(c.Conditions[i])

\* C16: a Where whose conditions are predicates and groups but hold no
\* predicate at all (no condition, only empty groups) appends no clause, and
\* no WHERE clause of such conditions contains '()'.
C16_NoEmptyWhere ==
  (last.op = "Where"
     /\ \A i \in 1..Len(last.arg.conditions) : OnlyHandled(last.arg.conditions[i]))
    => /\ CountIn(last.arg.conditions, 1) = 0 => After.clauses = Finalized.clauses
       /\ After.clauses # Finalized.clauses => ~ Contains(LastContent, "()")

\* Builder b was handed a condition that is neither a Predicate nor a
\* LogicalGroup in a call of Where
HandedUnhandled(b) ==
  \E i \in 1..Len(hist) :
    /\ hist[i].op = "Where"
    /\ hist[i].b = b
    /\ \E j \in 1..Len(hist[i].arg.conditions) : ~ OnlyHandled(hist[i].arg.conditions[j])

\* C17: a builder whose Where was handed a condition that is neither a
\* Predicate nor a LogicalGroup has recorded an error, so that its Build
\* fails, and the Where has appended no clause for it.
C17_UnhandledConditionRejected ==
  \A b \in Builders :
    HandedUnhandled(b)
      => /\ qb[b].errors # << >>
         /\ \A i \in 1..Len(qb[b].clauses) :
              qb[b].clauses[i].Type = "WHERE" => qb[b].clauses[i].Content # "()"

\* The last call was Where with the single predicate it is handed
OnePredicate ==
  /\ WhereCalled
  /\ Len(last.arg.conditions) = 1
  /\ last.arg.conditions[1].type = "Predicate"

ThePredicate == last.arg.conditions[1]

\* The property text the statement gives for property prop under alias
Rendered(alias, prop) ==
  IF alias # "" /\ \A i \in 1..Len(prop) : Char(prop, i) # "."
  THEN alias \o "." \o prop
  ELSE prop

RECURSIVE Underscored(_, _)
\* The text s from its i-th character on, with '_' for every dot
Underscored(s, i) ==
  IF i > Len(s) THEN ""
  ELSE (IF Char(s, i) = "." THEN "_" ELSE Char(s, i)) \o Underscored(s, i + 1)

\* The placeholder base name the statement gives for a rendered property
BaseName(rendered) == Underscored(rendered, 1)

RECURSIVE CountBinding(_)
RECURSIVE CountBindingIn(_, _)
CountBindingIn(cs, i) ==
  IF i > Len(cs) THEN 0 ELSE CountBinding(cs[i]) + CountBindingIn(cs, i + 1)

\* The number of predicates in c whose operator is neither IS NULL nor
\* IS NOT NULL
CountBinding(c) ==
  IF c.type = "Predicate"
  THEN IF c.Operator \in { OpIsNull, OpIsNotNull } THEN 0 ELSE 1
  ELSE IF IsGroup(c) THEN CountBindingIn(c.Conditions, 1)
  ELSE 0

\* C19: a predicate with IS NULL or IS NOT NULL is written as the property
\* and the operator, with no placeholder, and leaves the parameter table and
\* the counter as they were; every predicate with another operator binds
\* exactly one parameter.
C19_NullChecksBindNothing ==
  /\ (OnePredicate /\ ThePredicate.Operator \in { OpIsNull, OpIsNotNull })
       => /\ LastContent
               = "(" \o Rendered(Finalized.currentAlias, ThePredicate.Property)
                  \o " " \o ThePredicate.Operator \o ")"
          /\ ThePredicate.Operator \in { "IS NULL", "IS NOT NULL" }
          /\ After.parameters = Finalized.parameters
          /\ After.paramCounter = Finalized.paramCounter
  /\ last.op = "Where"
       => /\ After.paramCounter
               = Finalized.paramCounter + CountBindingIn(last.arg.conditions, 1)
          /\ Len(After.names) = Len(Finalized.names) + CountBindingIn(last.arg.conditions, 1)
          /\ Cardinality(DOMAIN After.parameters)
               = Cardinality(DOMAIN Finalized.parameters)
                 + CountBindingIn(last.arg.conditions, 1)

\* Where(IsNull("email")) was rendered under alias u after a CREATE entity
\* had bound its parameters
C19_EmailIsNullRendered ==
  /\ OnePredicate
  /\ last.arg.conditions = EmailIsNull
  /\ LastContent = "(u.email IS NULL)"
  /\ After.paramCounter = 3

(***************************************************************************)
(* Relationship patterns                                                   *)
(***************************************************************************)
PatternOps == { "MatchPattern", "CreatePattern", "MergePattern" }

\* The text s ends with the text t
HasSuffix(s, t) ==
  Len(s) >= Len(t) /\ SubSeq(s, Len(s) - Len(t) + 1, Len(s)) = t

\* The relationship text of the pattern the last call rendered
RelationshipRendered ==
  buildRelationshipPatternString(
    buildNodePatternString(Finalized, last.arg.pattern.StartNode).q,
    last.arg.pattern.Relationship).s

\* The direction of the relationship the last call rendered
DirectionRendered == last.arg.pattern.Relationship.Direction

\* C20: MatchPattern, CreatePattern and MergePattern render an outgoing
\* relationship as -[...]->, an incoming one as <-[...]- and one of both
\* directions as -[...]-.
C20_DirectionRendering ==
  last.op \in PatternOps
    => /\ Contains(LastContent, RelationshipRendered)
       /\ DirectionRendered = DirectionOutgoing
            => HasPrefix(RelationshipRendered, "-[") /\ HasSuffix(RelationshipRendered, "]->")
       /\ DirectionRendered = DirectionIncoming
            => HasPrefix(RelationshipRendered, "<-[") /\ HasSuffix(RelationshipRendered, "]-")
       /\ DirectionRendered = DirectionBoth
            => /\ HasPrefix(RelationshipRendered, "-[")
               /\ HasSuffix(RelationshipRendered, "]-")

\* The relationship the last call rendered
RelationshipHanded == last.arg.pattern.Relationship

\* The variable-length suffix the statement gives for the bounds min and max
LengthSuffix(min, max) ==
  IF min.set /\ max.set THEN "*" \o Itoa(min.n) \o ".." \o Itoa(max.n)
  ELSE IF min.set THEN "*" \o Itoa(min.n) \o ".."
  ELSE IF max.set THEN "*.." \o Itoa(max.n)
  ELSE ""

\* C21: inside the brackets of a relationship the query builder writes
\* '*min..max' when both bounds are set, '*min..' for MinLength alone,
\* '*..max' for MaxLength alone and no '*' when neither is set; an outgoing
\* KNOWS relationship from a to b with the bounds 2 and 4 gives the clause
\* MATCH (a)-[:KNOWS*2..4]->(b).
C21_LengthSuffix ==
  /\ last.op \in PatternOps
       => /\ Contains(RelationshipRendered,
                      "[" \o RelationshipHanded.Variable \o ":" \o RelationshipHanded.Type
                      \o LengthSuffix(RelationshipHanded.MinLength, RelationshipHanded.MaxLength)
                      \o (IF DOMAIN RelationshipHanded.Properties = {} THEN "]" ELSE " {"))
          /\ (~ RelationshipHanded.MinLength.set /\ ~ RelationshipHanded.MaxLength.set)
               => ~ Contains(RelationshipRendered, "*")
  /\ hist = << CallOf("MatchPattern", 1, [pattern |-> KnowsTwoToFour, clauseType |-> MatchClause]) >>
       => qb[1].clauses = << [Type |-> "MATCH", Content |-> "(a)-[:KNOWS*2..4]->(b)"] >>

(***************************************************************************)
(* Property maps                                                           *)
(***************************************************************************)
\* The names generated from position from + 1 on, as many as props has keys
NamesFor(names, from, props) ==
  SubSeq(names, from + 1, from + Cardinality(DOMAIN props))

\* The key of props that the i-th of the names was generated for, the
\* counter having been at counter before the first
KeyOf(props, names, counter, i) ==
  CHOOSE k \in DOMAIN props : names[i] = k \o "_" \o Itoa(counter + i)

\* The names were generated for the keys of props in ascending order with
\* consecutive counter values after counter, and content writes the pairs
\* 'key: $name' in that order
MapInOrder(props, names, counter, content) ==
  /\ Len(names) = Cardinality(DOMAIN props)
  /\ \A i \in 1..Len(names) :
       /\ \E k \in DOMAIN props : names[i] = k \o "_" \o Itoa(counter + i)
       /\ Contains(content, KeyOf(props, names, counter, i) \o ": $" \o names[i])
  /\ \A i \in 1..(Len(names) - 1) :
       /\ StrLess(KeyOf(props, names, counter, i), KeyOf(props, names, counter, i + 1))
       /\ Contains(content, "$" \o names[i] \o ", "
                            \o KeyOf(props, names, counter, i + 1) \o ": $" \o names[i + 1])

\* The last call finalized a CREATE or MERGE entity that has properties
FinalizedProperties ==
  /\ HoldsResolvable(Before)
  /\ Before.pendingClause \in { "CREATE", "MERGE" }
  /\ last.op # "SetParameter"

\* The number of properties of the start node and of the relationship of
\* the pattern the last call rendered
StartCount == Cardinality(DOMAIN last.arg.pattern.StartNode.Properties)
RelCount == Cardinality(DOMAIN last.arg.pattern.Relationship.Properties)

\* The call CreatePattern(PropsPattern)
CreatePropsPattern ==
  CallOf("CreatePattern", 1, [pattern |-> PropsPattern, clauseType |-> CreateClause])

\* C22: the property map of a pattern node, of a pattern relationship and of
\* a CREATE or MERGE entity is written with its keys in ascending order, and
\* the placeholders take consecutive counter values in that order; the same
\* descriptor handed to a fresh builder always gives the same text and the
\* same parameter table.
C22_SortedKeys ==
  /\ FinalizedProperties
       => MapInOrder(HeldInfo(last.b).Properties,
                     NamesFor(After.names, Len(Before.names), HeldInfo(last.b).Properties),
                     Before.paramCounter, FirstNew(last.b).Content)
  /\ last.op \in PatternOps
       => /\ MapInOrder(last.arg.pattern.StartNode.Properties,
                        NamesFor(After.names, Len(Finalized.names),
                                 last.arg.pattern.StartNode.Properties),
                        Finalized.paramCounter, LastContent)
          /\ MapInOrder(last.arg.pattern.Relationship.Properties,
                        NamesFor(After.names, Len(Finalized.names) + StartCount,
                                 last.arg.pattern.Relationship.Properties),
                        Finalized.paramCounter + StartCount, LastContent)
          /\ MapInOrder(last.arg.pattern.EndNode.Properties,
                        NamesFor(After.names, Len(Finalized.names) + StartCount + RelCount,
                                 last.arg.pattern.EndNode.Properties),
                        Finalized.paramCounter + StartCount + RelCount, LastContent)
  /\ hist = << CreatePropsPattern >>
       => /\ qb[1].clauses
               = << [Type |-> "CREATE",
                     Content |-> "(a:User {age: $age_1, name: $name_2})"
                                 \o "-[r:KNOWS {since: $since_3, weight: $weight_4}]->(b)"] >>
          /\ qb[1].parameters
               = ("age_1" :> IntV(30)) @@ ("name_2" :> StrV("alice"))
                 @@ ("since_3" :> IntV(2020)) @@ ("weight_4" :> IntV(1))

\* An entity with three properties was finalized after a pattern with four
C22_EntityAfterPattern ==
  /\ hist = << CreatePropsPattern,
               CallOf("Create", 1, [p |-> UserAlice, clauseType |-> CreateClause]),
               CallOf("Build", 1, << >>) >>
  /\ qb[1].names = << "age_1", "name_2", "since_3", "weight_4",
                      "active_5", "email_6", "username_7" >>
  /\ qb[1].clauses[2].Content
       = "(:User:Person {active: $active_5, email: $email_6, username: $username_7})"

(***************************************************************************)
(* Build: the query text, errors, validation                               *)
(***************************************************************************)
\* Build was called last and returned no error
Built == last.op = "Build" /\ last.result.err = ""

\* The line the statement gives for a clause
LineOf(clause) ==
  IF clause.Content = "" THEN clause.Type ELSE clause.Type \o " " \o clause.Content

RECURSIVE LinesFrom(_, _)
\* The lines of the clauses from the i-th on, each but the last followed by
\* a newline
LinesFrom(clauses, i) ==
  IF i > Len(clauses) THEN ""
  ELSE LineOf(clauses[i]) \o (IF i < Len(clauses) THEN NL ELSE "")
       \o LinesFrom(clauses, i + 1)

\* C23: the Query of a Build that returns no error is the clauses in list
\* order, one per line with single newlines between them, each written as
\* its keyword, a blank and its content, and as the keyword alone when the
\* content is empty.
C23_QueryIsClauseLines ==
  Built => /\ last.result.Query = LinesFrom(After.clauses, 1)
           /\ \A i \in 1..Len(After.clauses) :
                After.clauses[i].Content = ""
                  => ~ Contains(last.result.Query, After.clauses[i].Type \o " " \o NL)
                     /\ ~ HasSuffix(last.result.Query, " ")

\* Match("(n:Person)").Union().Build() was called
C23_UnionBuilt ==
  /\ hist = << CallOf("Match", 1, [p |-> PersonPattern, clauseType |-> MatchClause]),
               CallOf("Union", 1, [clauseType |-> UnionClause]),
               CallOf("Build", 1, << >>) >>
  /\ last.result.Query = "MATCH (n:Person)" \o NL \o "UNION"

\* The value p is an entity that ParseEntity cannot resolve
Unresolvable(p) ==
  /\ ~ IsString(p)
  /\ p # NilEntity
  /\ ParseEntity(p).err # ""

\* Builder b was handed an entity that cannot be resolved
HandedUnresolvable(b) ==
  \E i \in 1..Len(hist) :
    /\ hist[i].op \in EntityOps
    /\ hist[i].b = b
    /\ Unresolvable(hist[i].arg.p)

\* The last call finalized the entity its builder held
Finalizes == last.op \notin { "New", "SetParameter" }

\* C24: when a call finalizes a held entity (a value other than nil) that is
\* neither a struct nor a pointer to a struct, no clause is appended for the
\* entity and an error is recorded; and Build on a builder that was handed
\* such an entity returns an error with an empty QueryResult: no Query and
\* no Parameters.
C24_UnresolvableEntity ==
  /\ (Finalizes /\ Unresolvable(Before.pendingEntity))
       => /\ Len(After.errors) > Len(Before.errors)
          /\ After.errors[Len(Before.errors) + 1]
               = "failed to parse entity: entity must be a struct or a pointer to a struct"
          /\ Len(After.clauses) <= Len(Before.clauses) + 1
          /\ Len(After.clauses) = Len(Before.clauses) + 1
               => /\ "clauseType" \in DOMAIN last.arg
                  /\ LastContent # ""
                       => ("p" \in DOMAIN last.arg /\ IsString(last.arg.p))
                          \/ last.op \notin EntityOps
  /\ (last.op = "Build" /\ HandedUnresolvable(last.b))
       => /\ last.result.err # ""
          /\ last.result.Query = ""
          /\ ~ last.result.params
          /\ last.result.Errors = << >>
          /\ ~ last.result.Valid

\* Match(42).Return("u").Build() was called: the builder has the RETURN
\* clause alone and Build returned the error
C24_MatchNonStructBuilt ==
  /\ hist = << CallOf("Match", 1, [p |-> NonStruct, clauseType |-> MatchClause]),
               CallOf("Return", 1, [expressions |-> ReturnU, clauseType |-> ReturnClause]),
               CallOf("Build", 1, << >>) >>
  /\ qb[1].clauses = << [Type |-> "RETURN", Content |-> "u"] >>
  /\ last.result.err
       = "failed to parse entity: entity must be a struct or a pointer to a struct"
  /\ last.result.Query = ""

\* The calls that append a clause of their own whatever they are handed
ClauseOps == { "Where", "Return", "Union", "UnionAll", "Delete", "DetachDelete" }

RECURSIVE MessagesFrom(_, _)
\* The messages from the i-th on, in their order, with '; ' between them
MessagesFrom(errors, i) ==
  IF i > Len(errors) THEN ""
  ELSE errors[i] \o (IF i < Len(errors) THEN "; " ELSE "") \o MessagesFrom(errors, i + 1)

\* C25: no call shortens or rewrites the list of recorded errors; a call on
\* a builder that has recorded an error still appends its clause; and Build
\* on a builder with recorded errors returns one error whose message is the
\* recorded messages in the order they were recorded.
C25_ErrorsAccumulate ==
  /\ \A b \in Builders : IsPrefix(last.pre[b].errors, qb[b].errors)
  /\ (last.op \in ClauseOps /\ Before.errors # << >>)
       => /\ Len(After.clauses) = Len(Finalized.clauses) + 1
          /\ After.clauses[Len(After.clauses)].Type = last.arg.clauseType
  /\ (last.op = "Build" /\ After.errors # << >>)
       => /\ last.result.err = MessagesFrom(After.errors, 1)
          /\ \A i \in 1..Len(After.errors) : Contains(last.result.err, After.errors[i])

\* Match(42).Delete(user).Build() was called: two errors were recorded, the
\* DELETE clause was appended after the first, and Build reported both
C25_TwoErrorsReported ==
  /\ hist = << CallOf("Match", 1, [p |-> NonStruct, clauseType |-> MatchClause]),
               CallOf("Delete", 1, [variables |-> EntityAlice, clauseType |-> DeleteClause]),
               CallOf("Build", 1, << >>) >>
  /\ qb[1].clauses = << [Type |-> "DELETE", Content |-> ""] >>
  /\ last.result.err
       = "failed to parse entity: entity must be a struct or a pointer to a struct"
         \o "; could not find alias for entity to delete: *tests.User"

(***************************************************************************)
(* Delete and DetachDelete of an entity                                    *)
(***************************************************************************)
DeleteOps == { "Delete", "DetachDelete" }

\* The last three calls were Match, Create or Merge of an entity e that
\* resolves, As(a), and Delete(e) or DetachDelete(e), on one builder
DeletedAfterAs ==
  /\ Len(hist) >= 3
  /\ last.op \in DeleteOps
  /\ Len(last.arg.variables) = 1
  /\ hist[Len(hist) - 1].op = "As"
  /\ hist[Len(hist) - 1].b = last.b
  /\ hist[Len(hist) - 2].op \in { "Match", "Create", "Merge" }
  /\ hist[Len(hist) - 2].b = last.b
  /\ hist[Len(hist) - 2].arg.p = last.arg.variables[1]
  /\ ~ IsString(last.arg.variables[1])
  /\ ParseEntity(last.arg.variables[1]).err = ""

\* The aliases that As has recorded on builder b for the entity value e: As
\* was called right after Match, OptionalMatch, Create or Merge of e
RecordedAliases(b, e) ==
  { hist[i].arg.alias :
      i \in { j \in 2..Len(hist) : /\ hist[j].op = "As"
                                    /\ hist[j].b = b
                                    /\ hist[j - 1].op \in EntityOps
                                    /\ hist[j - 1].b = b
                                    /\ hist[j - 1].arg.p = e } }

C27_ValidationIsNotFatal ==
  /\ (last.op = "Build" /\ After.errors = << >>)
       => /\ last.result.err = ""
          /\ last.result.Query = LinesFrom(After.clauses, 1)
          /\ last.result.params
          /\ last.result.Valid <=> last.result.Errors = << >>
  /\ hist = << CallOf("Match", 1, [p |-> UnclosedPattern, clauseType |-> MatchClause]),
               CallOf("Return", 1, [expressions |-> ReturnU, clauseType |-> ReturnClause]),
               CallOf("Build", 1, << >>) >>
       => /\ last.result.err = ""
          /\ last.result.Query = "MATCH (n:Person" \o NL \o "RETURN u"
          /\ last.result.Errors = << "bracket_mismatch" >>
          /\ ~ last.result.Valid

\* Build returned a text with a validation finding, and no error
C27_InvalidTextReturned ==
  /\ last.op = "Build"
  /\ last.result.err = ""
  /\ last.result.Query = "MATCH (n:Person" \o NL \o "RETURN u"
  /\ last.result.Errors # << >>
  /\ ~ last.result.Valid

\* The call before the last was a Build of the same builder that returned a
\* result
ReturnedBefore ==
  /\ Len(hist) >= 2
  /\ hist[Len(hist) - 1].op = "Build"
  /\ hist[Len(hist) - 1].b = last.b
  /\ Before.errors = << >>

\* The result that Build returned
ResultBefore == BuildFinalized(Before).result

\* C28: the Parameters of a result that Build has returned show the same
\* contents after the next call on the builder as when the result was
\* returned.
C28_ResultImmutable ==
  ReturnedBefore
    => ParametersOf(ResultBefore, After) = ParametersOf(ResultBefore, Before)

\* A step from the return of a Build to the return of the next call, which
\* is a Build of the same builder
BuildAfterBuild ==
  /\ last.op = "Build"
  /\ last'.op = "Build"
  /\ last'.b = last.b

\* C29: a Build that directly follows a Build of the same builder returns
\* the same Query, an equal parameter table and the same error as the first.
C29_BuildTwice ==
  [][ BuildAfterBuild
        => /\ last'.result.Query = last.result.Query
           /\ last'.result.err = last.result.err
           /\ ParametersOf(last'.result, qb'[last.b]) = ParametersOf(last.result, qb[last.b]) ]_vars

\* Create(user).Build().Build() was called and the second Build returned the
\* CREATE clause once
C29_BuiltTwice ==
  /\ hist = << CallOf("Create", 1, [p |-> UserAlice, clauseType |-> CreateClause]),
               CallOf("Build", 1, << >>),
               CallOf("Build", 1, << >>) >>
  /\ last.result.Query
       = "CREATE (:User:Person {active: $active_1, email: $email_2, username: $username_3})"
  /\ qb[1].paramCounter = 3

(***************************************************************************)
(* The validator                                                           *)
(***************************************************************************)
RECURSIVE OnlyBrackets(_, _)
\* The brackets of the text s from its i-th character on
OnlyBrackets(s, i) ==
  IF i > Len(s) THEN ""
  ELSE (IF Char(s, i) \in { "(", ")", "[", "]", "{", "}" } THEN Char(s, i) ELSE "")
       \o OnlyBrackets(s, i + 1)

\* The positions of s where an opening bracket stands right before its
\* closing bracket
PairsIn(s) ==
  { i \in 1..(Len(s) - 1) : SubSeq(s, i, i + 1) \in { "()", "[]", "{}" } }

RECURSIVE Cancelled(_)
\* What is left of the brackets s when adjacent pairs are taken out until
\* there is none
Cancelled(s) ==
  IF PairsIn(s) = {} THEN s
  ELSE Cancelled(SubSeq(s, 1, (CHOOSE i \in PairsIn(s) : TRUE) - 1)
                 \o SubSeq(s, (CHOOSE i \in PairsIn(s) : TRUE) + 2, Len(s)))

\* The brackets of the text are properly nested and balanced
ProperlyNested(text) == Cancelled(OnlyBrackets(text, 1)) = ""

\* The validator reported an error of the given type for the last text
Reported(type) ==
  \E i \in 1..Len(last.result.Errors) : last.result.Errors[i] = type

\* C30: for a text that is not empty, Validate reports bracket_mismatch
\* exactly when the brackets ( ) [ ] { } of the text are not properly nested
\* and balanced.
C30_BracketMismatch ==
  (last.op = "Validate" /\ last.arg.query # "")
    => (Reported("bracket_mismatch") <=> ~ ProperlyNested(last.arg.query))

\* The validator was handed the text with the unclosed parenthesis
C30_UnclosedReported ==
  /\ last.op = "Validate"
  /\ last.arg.query = "MATCH (n:Person RETURN n"
  /\ last.result.Errors = << "bracket_mismatch" >>

\* The clause keywords the statement calls recognized
Keywords ==
  { "MATCH", "CREATE", "MERGE", "RETURN", "WITH", "WHERE", "UNWIND", "SET",
    "DELETE", "REMOVE" }

\* The text holds a keyword at position i, in upper or lower case letters
KeywordAt(text, i) ==
  \E k \in Keywords :
    /\ i + Len(k) - 1 <= Len(text)
    /\ \A j \in 1..Len(k) :
         Char(text, i + j - 1) \in { Char(k, j), Char(ToLower(k), j) }

\* C31: Validate of the empty text returns the error empty_query alone, and
\* Validate of a text that is not empty and holds no clause keyword returns
\* an error no_valid_clause.
C31_EmptyAndKeywordless ==
  last.op = "Validate"
    => /\ last.arg.query = "" => last.result.Errors = << "empty_query" >>
       /\ (last.arg.query # "" /\ \A i \in 1..Len(last.arg.query) : ~ KeywordAt(last.arg.query, i))
            => Reported("no_valid_clause")
       /\ last.arg.query = "(n:Person)" => last.result.Errors = << "no_valid_clause" >>

\* The validator was handed '(n:Person)'
C31_PatternAloneReported ==
  /\ last.op = "Validate"
  /\ last.arg.query = "(n:Person)"
  /\ Reported("no_valid_clause")

(***************************************************************************)
(* C32: omitempty                                                          *)
(***************************************************************************)
\* The fields of an entity that carry a tag with the option omitempty
OmitEmptyFields(entity) ==
  { i \in 1..Len(StructTypes[entity.typ].fields) :
      Contains(StructTypes[entity.typ].fields[i].tag, ",omitempty") }

RECURSIVE CommaAt(_, _)
\* The place of the first comma of a tag from place i on, or Len(tag) + 1
CommaAt(tag, i) ==
  IF i > Len(tag) \/ Char(tag, i) = "," THEN i ELSE CommaAt(tag, i + 1)

\* The property name written before the first comma of a tag
TagName(tag) == SubSeq(tag, 1, CommaAt(tag, 1) - 1)

\* The zero values of the types that are not bool: 0, "" and nil
ZeroOfNonBool(v) == v = IntV(0) \/ v = StrV("") \/ v = NilV

\* Whether the resolved properties hold field i of the entity as stated
OmittedAsStated(entity, properties, i) ==
  (TagName(StructTypes[entity.typ].fields[i].tag) \in DOMAIN properties)
    <=> ~ ZeroOfNonBool(entity.vals[i])

NoDuplicates(list) ==
  \A i, j \in 1..Len(list) : list[i] = list[j] => i = j

RECURSIVE FirstSeen(_, _, _)
\* The labels of list from place i on that are not in seen, in the order in
\* which they are first met, after seen
FirstSeen(list, i, seen) ==
  IF i > Len(list) THEN seen
  ELSE FirstSeen(list, i + 1,
         IF \E j \in 1..Len(seen) : seen[j] = list[i] THEN seen
         ELSE Append(seen, list[i]))

\* The labels a struct type names: those of the tag of its field _ in the
\* order written, or the name of the type
Annotated(typ) ==
  IF \E i \in 1..Len(StructTypes[typ].fields) : StructTypes[typ].fields[i].name = "_"
  THEN Split(TrimPrefix(
         StructTypes[typ].fields[CHOOSE i \in 1..Len(StructTypes[typ].fields) :
                                   StructTypes[typ].fields[i].name = "_"].tag,
         "label:"), ",")
  ELSE << StructTypes[typ].name >>

RECURSIVE Collected(_, _, _)
\* The collection the calls of Add and Remove from place i of h on leave of
\* acc when a label is added at the end unless it is empty or present, and
\* a removed label is gone
Collected(h, i, acc) ==
  IF i > Len(h) THEN acc
  ELSE Collected(h, i + 1,
         IF h[i].op = "Labels.Add"
         THEN FirstSeen(<< h[i].arg.label >>, IF h[i].arg.label = "" THEN 2 ELSE 1, acc)
         ELSE IF h[i].op = "Labels.Remove"
         THEN SelectSeq(acc, LAMBDA l : l # h[i].arg.label)
         ELSE acc)

\* The Labels collection holds no label twice and holds the labels in the
\* order in which they were added
CollectionAsStated == NoDuplicates(ls) /\ ls = Collected(hist, 1, << >>)

\* Whether the label list resolved for an entity holds each label the type
\* names once, in the order in which the labels are first named
ResolvedAsStated(entity, resolved) ==
  NoDuplicates(resolved) /\ resolved = FirstSeen(Annotated(entity.typ), 1, << >>)

\* C33: the label list ParseEntity resolves for a struct or a pointer to a
\* struct holds the labels of the label annotation in the order in which
\* they are first named and holds none of them twice, and so does a Labels
\* collection after any calls of Add and Remove.
C33_LabelsOrderedAndUnique ==
  /\ CollectionAsStated
  /\ (last.op = "ParseEntity" /\ last.arg.entity.kind \in {"ptr", "struct"})
       => ResolvedAsStated(last.arg.entity, last.result.Labels)

\* C33 for the Labels collection alone
C33_CollectionOrderedAndUnique == CollectionAsStated

\* Add(Person), Add(Admin), Remove(Person), Add(Person) left Admin, Person
C33_PersonAddedAgain ==
  /\ Len(hist) = 4
  /\ hist[3].op = "Labels.Remove"
  /\ ls = << "Admin", "Person" >>

(***************************************************************************)
(* C34: two builders                                                       *)
(***************************************************************************)
\* The builder a call of SpecTwo leaves of q
Apply(q, c) ==
  CASE c.op = "Create" -> handleEntityClause(q, CreateClause, c.arg.p)
    [] c.op = "As"     -> AsQ(q, c.arg.alias)
    [] c.op = "Where"  -> WhereQ(q, c.arg.conditions)
    [] c.op = "Return" -> ExpressionClauseQ(q, ReturnClause, c.arg.expressions)
    [] c.op = "Build"  -> BuildQ(q).q

RECURSIVE RunAlone(_, _, _, _)
\* The builder that the calls of h on builder b, from place i on, leave of
\* q when no call on another builder runs between them
RunAlone(h, i, b, q) ==
  IF i > Len(h) THEN q
  ELSE RunAlone(h, i + 1, b, IF h[i].b = b THEN Apply(q, h[i]) ELSE q)

\* Builder b as its own calls leave it, and as they left it before the last call
Alone(b) == RunAlone(hist, 1, b, NewQueryBuilder)
AloneBefore(b) == RunAlone(SubSeq(hist, 1, Len(hist) - 1), 1, b, NewQueryBuilder)

\* Whether the result of Build on builder q equals the result r of Build on
\* builder alone, in Query, Parameters and error
SameOutcome(r, q, alone) ==
  /\ r.Query = BuildQ(alone).result.Query
  /\ r.err = BuildQ(alone).result.err
  /\ ParametersOf(r, q) = ParametersOf(BuildQ(alone).result, BuildQ(alone).q)

ClausesOfType(q, t) ==
  Cardinality({ i \in 1..Len(q.clauses) : q.clauses[i].Type = t })

\* The builder of the last call as Build finds it once it has finalized the
\* entity the builder holds
Flushed == finalizePendingClause(After)

\* Whether builder q2 holds one clause of type t more than q and the same
\* errors, or the same clauses and one error more
OneClauseOrOneError(q, q2, t) ==
  \/ /\ ClausesOfType(q2, t) = ClausesOfType(q, t) + 1
     /\ Len(q2.clauses) = Len(q.clauses) + 1
     /\ q2.errors = q.errors
  \/ /\ q2.clauses = q.clauses
     /\ Len(q2.errors) = Len(q.errors) + 1

\* C35: a call of Match, OptionalMatch, Create or Merge adds, to what Build
\* finds once the held entity is finalized, exactly one clause of its clause
\* type or exactly one error, whatever it is handed.
C35_OneClauseOrOneError ==
  last.op \in EntityOps => OneClauseOrOneError(Finalized, Flushed, last.arg.clauseType)

(***************************************************************************)
(* C36: entries of the caller                                              *)
(***************************************************************************)
\* Whether the i-th call is a SetParameter that no later SetParameter of
\* the same builder with the same key follows
LastSetParameter(i) ==
  /\ hist[i].op = "SetParameter"
  /\ \A j \in (i + 1)..Len(hist) :
       ~ /\ hist[j].op = "SetParameter"
         /\ hist[j].b = hist[i].b
         /\ hist[j].arg.key = hist[i].arg.key

\* C36: the parameter table of a builder, which Build returns as Parameters,
\* binds every key the caller has set with SetParameter to the value of the
\* caller's last SetParameter with that key.
C36_CallerEntriesKept ==
  \A i \in 1..Len(hist) :
    LastSetParameter(i)
      => /\ hist[i].arg.key \in DOMAIN qb[hist[i].b].parameters
         /\ qb[hist[i].b].parameters[hist[i].arg.key] = hist[i].arg.value

(***************************************************************************)
(* C37: Not                                                                *)
(***************************************************************************)
\* The texts that negate the condition text s: s wrapped as NOT (...), or
\* NOT before the parentheses of a group
NegationsOf(s) ==
  { "NOT (" \o s \o ")" } \cup (IF HasPrefix(s, "(") THEN { "NOT " \o s } ELSE { })

\* The text of condition c rendered from the builder the last call worked on
TextOf(c) == buildConditionString(Finalized, c).s

\* C37: the WHERE clause of Where(Not(c)) holds the text of c negated with
\* NOT, and the WHERE clause of Where(Not(Not(c))) holds the text of c, for
\* a predicate and for a LogicalGroup c.
C37_NotNegates ==
  /\ last.op = "WhereNot"
       => \E s \in NegationsOf(TextOf(last.arg.condition)) : LastContent = "(" \o s \o ")"
  /\ last.op = "WhereNotNot"
       => LastContent = "(" \o TextOf(last.arg.condition) \o ")"

(***************************************************************************)
(* C38: determinism                                                        *)
(***************************************************************************)
\* Whether the two builders have received the same calls with the same
\* arguments in the same order
SameCalls(mine, theirs) ==
  /\ Len(mine) = Len(theirs)
  /\ \A i \in 1..Len(mine) : mine[i].op = theirs[i].op /\ mine[i].arg = theirs[i].arg

\* Whether Build returns the same Query, parameter table and error for
\* the builders r1 and r2 it leaves
SameBuild(r1, r2) ==
  /\ r1.result.Query = r2.result.Query
  /\ r1.result.err = r2.result.err
  /\ ParametersOf(r1.result, r1.q) = ParametersOf(r2.result, r2.q)

\* C38: two fresh builders that have received the same calls with equal
\* arguments hold the same clauses and the same parameter table, and Build
\* returns the same Query and Parameters for both.
C38_SameCallsSameQuery ==
  SameCalls(CallsOn(1), CallsOn(2))
    => /\ qb[1].clauses = qb[2].clauses
       /\ qb[1].parameters = qb[2].parameters
       /\ SameBuild(BuildQ(qb[1]), BuildQ(qb[2]))

(***************************************************************************)
(* C39: the two renderers of a relationship                                *)
(***************************************************************************)
\* C39: for a relationship without properties, the text MatchPattern,
\* CreatePattern and MergePattern write for it is the text that String of
\* a relationship builder returns for it, and the other way round.
C39_RenderersAgree ==
  /\ last.op \in PatternOps
       => RelationshipRendered = RelationshipBuilderString(RelationshipHanded)
  /\ last.op = "String"
       => last.result.s = buildRelationshipPatternString(qb[1], RelationshipHanded).s

(***************************************************************************)
(* C40: As with no entity pending                                          *)
(***************************************************************************)
\* The last call was As on a builder that held no entity
AsWithNothingPending == last.op = "As" /\ Before.pendingEntity = NilEntity

\* The last call was Where with the one predicate age > 25 on a builder
\* whose current alias is set
WhereAgeUnderAlias ==
  /\ last.op = "Where"
  /\ last.arg.conditions = AgeOver25
  /\ Finalized.currentAlias # ""

\* C40: As on a builder that holds no entity leaves the clauses, the
\* recorded aliases, the parameter table, the counter and the errors as
\* they were and sets the current alias; a later Where writes the current
\* alias before a property name without a dot.
C40_AsSetsAliasOnly ==
  /\ AsWithNothingPending
       => After = [Before EXCEPT !.currentAlias = last.arg.alias]
  /\ WhereAgeUnderAlias
       => Contains(LastContent, "(" \o Finalized.currentAlias \o ".age > $")

\* As(n) on a fresh builder, then Where(age > 25): the clause is
\* WHERE (n.age > $n_age_1) and no alias is recorded
C40_AliasThenWhere ==
  /\ Len(hist) = 2
  /\ hist[1] = CallOf("As", 1, [alias |-> "n"])
  /\ last.op = "Where"
  /\ qb[1].clauses = << [Type |-> WhereClause, Content |-> "(n.age > $n_age_1)"] >>
  /\ DOMAIN qb[1].entityAliases = {}
====
